---- MODULE Spec2Model ----
(***************************************************************************)
(* Court-schedule monitoring: the change detector (lib/changeDetector.ts),  *)
(* the background polling worker (pollSchedule, startPolling) and the       *)
(* monitoring endpoint (POST /api/monitor) over the document store.         *)
(*                                                                         *)
(* A value of type `T | null` (or an optional field) is modelled as a       *)
(* sequence of length at most one: <<>> is null/undefined, <<x>> is x.      *)
(***************************************************************************)
EXTENDS Integers, Sequences, FiniteSets, TLC

VARIABLES
    oldCourts,      \* detectChanges argument: the stored courts
    newCourts,      \* detectChanges argument: the freshly parsed courts
    detected,       \* the array detectChanges returned
    dphase,         \* "build" while the arguments are chosen, "done" after the call
    clock,          \* wall clock, milliseconds since the epoch (Date.now())
    schedules,      \* collection 'schedules', in insertion order
    changes,        \* collection 'changes'; a document's _id is its index
    notifications,  \* collection 'notifications'
    logs,           \* number of documents in 'monitoring_logs'
    isRunning,      \* worker: let isRunning
    timerArmed,     \* worker: pollTimeout holds a pending setTimeout
    lastTick,       \* worker: what the latest timer callback did
    polls,          \* every pollSchedule() / POST invocation, by number
    SESSIONS,       \* elegalix: const SESSIONS = new Map<string, ElegalixSession>()
    calls,          \* every document retrieval / captcha client, by number
    imageBuf,       \* solveCaptcha argument: the captcha image
    ocr,            \* what each tesseract.recognize() run answers for that image
    solved,         \* how the solveCaptcha call ended
    sphase,         \* "input" before the solveCaptcha call, "done" after it
    order,          \* the downloadOrderJudgment() invocation of the run
    html,           \* parseCourtSchedule argument: the rows of the page's first table
    parsedCourts,   \* what parseCourtSchedule returned
    retrying,         \* the retryWithBackoff() invocation of the run
    ocrRuns,        \* captcha candidates: what each OCR run read
    candidates,     \* captcha candidates: the list returned
    counsel         \* the fetchCounselRows() invocation of the run

dvars == <<oldCourts, newCourts, detected, dphase>>
store == <<schedules, changes, notifications, logs>>
pvars == <<clock, schedules, changes, notifications, logs, isRunning, timerArmed,
           lastTick, polls>>
wvars == <<schedules, changes, notifications, logs, isRunning, timerArmed,
           lastTick, polls>>
cvars == <<SESSIONS, calls>>
svars == <<imageBuf, ocr, solved, sphase>>
ovars == <<order>>
xvars == <<html, parsedCourts, retrying, ocrRuns, candidates, counsel>>
vars == <<oldCourts, newCourts, detected, dphase, clock, schedules, changes,
          notifications, logs, isRunning, timerArmed, lastTick, polls,
          SESSIONS, calls, imageBuf, ocr, solved, sphase, order, html,
          parsedCourts, retrying, ocrRuns, candidates, counsel>>

(***************************************************************************)
(* Bounds                                                                  *)
(***************************************************************************)
MaxLen == 2         \* longest court list handed to detectChanges
MaxRequests == 2    \* requests to POST /api/monitor in a run
MaxPolls == 3       \* pollSchedule() invocations of the worker that get past the guard

(***************************************************************************)
(* Optional values                                                         *)
(***************************************************************************)
None == <<>>
Some(x) == <<x>>

Range(seq) == {seq[i] : i \in DOMAIN seq}

(***************************************************************************)
(* The parts of the system a run does not exercise                         *)
(***************************************************************************)
DetectorIdle ==
    /\ oldCourts = << >>
    /\ newCourts = << >>
    /\ detected = << >>
    /\ dphase = "build"

RetrievalIdle ==
    /\ SESSIONS = << >>
    /\ calls = << >>

SolverIdle ==
    /\ imageBuf = << >>
    /\ ocr = << >>
    /\ solved = << >>
    /\ sphase = "input"

OrderIdle == order = << >>

ParserIdle == html = << >> /\ parsedCourts = << >>

RetryIdle == retrying = << >>

RankingIdle == ocrRuns = << >> /\ candidates = << >>

CounselIdle == counsel = << >>

\* Everything outside the monitoring pipeline, the detector and the elegalix
\* retrieval.
OthersIdle == ParserIdle /\ RetryIdle /\ RankingIdle /\ CounselIdle

(***************************************************************************)
(* Court records, as parseCourtSchedule builds them                        *)
(***************************************************************************)
CaseDetails(caseNumber, title) ==
    [caseNumber |-> caseNumber, title |-> title,
     petitionerCounsels |-> <<"A. Kumar">>, respondentCounsels |-> <<>>]

CourtCase(courtNo, serialNo, list, progress, caseDetails, isInSession) ==
    [courtNo |-> courtNo, serialNo |-> serialNo, list |-> list,
     progress |-> progress, caseDetails |-> caseDetails,
     isInSession |-> isInSession]

\* A row carrying the "NOT in session" marker: every optional field stays null.
NotInSession(courtNo) == CourtCase(courtNo, None, None, None, None, FALSE)

CaseW == CaseDetails("WRIT/123/2024", "A Vs. B")
CaseX == CaseDetails("N/A", "C Vs. D")

\* The rows the detector is exercised with.
SampleCourts ==
    { NotInSession("3"),
      CourtCase("3", Some("1"), Some("Daily"), None, None, TRUE),
      CourtCase("3", Some("1"), Some("Daily"), Some("Hearing"), Some(CaseW), TRUE),
      CourtCase("3", Some("2"), Some("Daily"), Some("Hearing"), Some(CaseW), TRUE),
      CourtCase("3", Some("1"), Some("Daily"), Some("Hearing"), Some(CaseX), TRUE),
      NotInSession("5"),
      CourtCase("5", Some("1"), Some("Fresh"), None, Some(CaseW), TRUE),
      CourtCase("5", Some("1"), Some("Fresh"), Some("Passed over"), Some(CaseW), TRUE) }

(***************************************************************************)
(* detectChanges                                                           *)
(***************************************************************************)
Last(S) == CHOOSE i \in S : \A j \in S : j <= i

\* new Map(); courts.forEach(court => map.set(court.courtNo, court)):
\* a later record of the same court number replaces an earlier one.
CourtMap(courts) ==
    [c \in {courts[i].courtNo : i \in DOMAIN courts} |->
        courts[Last({i \in DOMAIN courts : courts[i].courtNo = c})]]

SessionText(isInSession) == IF isInSession THEN "in session" ELSE "not in session"

ChangeRecord(timestamp, courtNo, changeType, oldValue, newValue, description) ==
    [timestamp |-> timestamp, courtNo |-> courtNo, changeType |-> changeType,
     oldValue |-> oldValue, newValue |-> newValue, description |-> description]

hasChanged(oldCourt, newCourt) ==
    \/ oldCourt.serialNo # newCourt.serialNo
    \/ oldCourt.list # newCourt.list
    \/ oldCourt.progress # newCourt.progress
    \/ oldCourt.caseDetails # newCourt.caseDetails

\* NewCourtChanges with the status_changed branch forgetting oldValue.
NewCourtChangesNoOld(oldMap, newCourt, timestamp) ==
    IF newCourt.courtNo \notin DOMAIN oldMap
    THEN << ChangeRecord(timestamp, newCourt.courtNo, "added", None, Some(newCourt),
                         <<"New case added to Court", newCourt.courtNo>>) >>
    ELSE LET oldCourt == oldMap[newCourt.courtNo] IN
         IF oldCourt.isInSession # newCourt.isInSession
         THEN << ChangeRecord(timestamp, newCourt.courtNo, "status_changed",
                              None, Some(newCourt),
                              <<"session status changed", newCourt.courtNo,
                                SessionText(oldCourt.isInSession),
                                SessionText(newCourt.isInSession)>>) >>
         ELSE IF oldCourt.isInSession /\ newCourt.isInSession
                 /\ hasChanged(oldCourt, newCourt)
         THEN << ChangeRecord(timestamp, newCourt.courtNo, "updated",
                              Some(oldCourt), Some(newCourt),
                              <<"Case details updated in Court", newCourt.courtNo>>) >>
         ELSE << >>

\* Body of newCourts.forEach: the events one new record pushes (none or one).
NewCourtChanges(oldMap, newCourt, timestamp) ==
    IF newCourt.courtNo \notin DOMAIN oldMap
    THEN << ChangeRecord(timestamp, newCourt.courtNo, "added", None, Some(newCourt),
                         <<"New case added to Court", newCourt.courtNo>>) >>
    ELSE LET oldCourt == oldMap[newCourt.courtNo] IN
         IF oldCourt.isInSession # newCourt.isInSession
         THEN << ChangeRecord(timestamp, newCourt.courtNo, "status_changed",
                              Some(oldCourt), Some(newCourt),
                              <<"session status changed", newCourt.courtNo,
                                SessionText(oldCourt.isInSession),
                                SessionText(newCourt.isInSession)>>) >>
         ELSE IF oldCourt.isInSession /\ newCourt.isInSession
                 /\ hasChanged(oldCourt, newCourt)
         THEN << ChangeRecord(timestamp, newCourt.courtNo, "updated",
                              Some(oldCourt), Some(newCourt),
                              <<"Case details updated in Court", newCourt.courtNo>>) >>
         ELSE << >>

\* RemovedChanges reporting only courts that were in session.
RemovedChangesInSessionOnly(newMap, oldCourt, timestamp) ==
    IF oldCourt.courtNo \notin DOMAIN newMap /\ oldCourt.isInSession
    THEN << ChangeRecord(timestamp, oldCourt.courtNo, "removed", Some(oldCourt), None,
                         <<"Case removed from Court", oldCourt.courtNo>>) >>
    ELSE << >>

\* Body of oldCourts.forEach: the events one old record pushes (none or one).
RemovedChanges(newMap, oldCourt, timestamp) ==
    IF oldCourt.courtNo \notin DOMAIN newMap
    THEN << ChangeRecord(timestamp, oldCourt.courtNo, "removed", Some(oldCourt), None,
                         <<"Case removed from Court", oldCourt.courtNo>>) >>
    ELSE << >>

RECURSIVE ForEachNew(_, _, _, _)
ForEachNew(oldMap, courts, i, timestamp) ==
    IF i > Len(courts) THEN << >>
    ELSE NewCourtChanges(oldMap, courts[i], timestamp)
            \o ForEachNew(oldMap, courts, i + 1, timestamp)

RECURSIVE ForEachOld(_, _, _, _)
ForEachOld(newMap, courts, i, timestamp) ==
    IF i > Len(courts) THEN << >>
    ELSE RemovedChanges(newMap, courts[i], timestamp)
            \o ForEachOld(newMap, courts, i + 1, timestamp)

detectChanges(old, new, timestamp) ==
    ForEachNew(CourtMap(old), new, 1, timestamp)
        \o ForEachOld(CourtMap(new), old, 1, timestamp)

(***************************************************************************)
(* Specification of the detector alone: any two court lists, then one call *)
(***************************************************************************)
DetectTime == 0

PipelineIdle ==
    /\ clock = 0
    /\ schedules = << >>
    /\ changes = << >>
    /\ notifications = << >>
    /\ logs = 0
    /\ isRunning = FALSE
    /\ timerArmed = FALSE
    /\ lastTick = "none"
    /\ polls = << >>

DInit ==
    /\ PipelineIdle
    /\ RetrievalIdle
    /\ SolverIdle
    /\ OrderIdle
    /\ OthersIdle
    /\ oldCourts = << >>
    /\ newCourts = << >>
    /\ detected = << >>
    /\ dphase = "build"

AppendOld ==
    /\ dphase = "build"
    /\ Len(oldCourts) < MaxLen
    /\ \E r \in SampleCourts : oldCourts' = Append(oldCourts, r)
    /\ UNCHANGED <<newCourts, detected, dphase>>
    /\ UNCHANGED <<pvars, cvars, svars, ovars, xvars>>

AppendNew ==
    /\ dphase = "build"
    /\ Len(newCourts) < MaxLen
    /\ \E r \in SampleCourts : newCourts' = Append(newCourts, r)
    /\ UNCHANGED <<oldCourts, detected, dphase>>
    /\ UNCHANGED <<pvars, cvars, svars, ovars, xvars>>

Detect ==
    /\ dphase = "build"
    /\ detected' = detectChanges(oldCourts, newCourts, DetectTime)
    /\ dphase' = "done"
    /\ UNCHANGED <<oldCourts, newCourts>>
    /\ UNCHANGED <<pvars, cvars, svars, ovars, xvars>>

DNext == AppendOld \/ AppendNew \/ Detect

SpecDetect == DInit /\ [][DNext]_vars

(***************************************************************************)
(* The pipeline: the polling worker and POST /api/monitor                  *)
(***************************************************************************)
BUCKET_MS == 60000
DEDUP_WINDOW_MS == 60000

\* The instants at which the model samples the wall clock.
Instants == {0, 50000, 60000}

\* What a fetch of the court page can parse to: no table, court 3 sitting
\* with a case, court 3 not sitting.
Pages ==
    { << >>,
      << CourtCase("3", Some("1"), Some("Daily"), Some("Hearing"), Some(CaseW), TRUE) >>,
      << NotInSession("3") >> }

\* generateChangeKey without the time window in the key.
generateChangeKeyNoWindow(courtNo, changeType, caseNumber, timestamp) ==
    <<courtNo, changeType,
      IF caseNumber = None THEN "none" ELSE caseNumber[1]>>

\* Math.floor(timestamp.getTime() / 60000) and the key string's four parts.
generateChangeKey(courtNo, changeType, caseNumber, timestamp) ==
    <<courtNo, changeType,
      IF caseNumber = None THEN "none" ELSE caseNumber[1],
      timestamp \div BUCKET_MS>>

\* c.newValue?.caseDetails?.caseNumber || c.oldValue?.caseDetails?.caseNumber
CaseNumberOf(value) ==
    IF value = None THEN None
    ELSE IF value[1].caseDetails = None THEN None
    ELSE IF value[1].caseDetails[1].caseNumber = "" THEN None
    ELSE Some(value[1].caseDetails[1].caseNumber)

EventCaseNumber(c) ==
    IF CaseNumberOf(c.newValue) # None THEN CaseNumberOf(c.newValue)
    ELSE CaseNumberOf(c.oldValue)

ChangeKeyOf(c) ==
    generateChangeKey(c.courtNo, c.changeType, EventCaseNumber(c), c.timestamp)

\* changesCollection.find({timestamp: {$gte: oneMinuteAgo}, courtNo: {$in: ...}})
existingChanges(now, detectedChanges) ==
    {i \in DOMAIN changes :
        /\ changes[i].timestamp >= now - DEDUP_WINDOW_MS
        /\ changes[i].courtNo \in {detectedChanges[j].courtNo : j \in DOMAIN detectedChanges}}

existingKeys(now, detectedChanges) ==
    {ChangeKeyOf(changes[i]) : i \in existingChanges(now, detectedChanges)}

RECURSIVE FilterSeq(_, _, _)
FilterSeq(seq, keep, i) ==
    IF i > Len(seq) THEN << >>
    ELSE (IF keep[i] THEN <<seq[i]>> ELSE << >>) \o FilterSeq(seq, keep, i + 1)

\* changes.filter(change => !existingKeys.has(changeKey))
uniqueChanges(now, detectedChanges) ==
    FilterSeq(detectedChanges,
              [i \in DOMAIN detectedChanges |->
                  ChangeKeyOf(detectedChanges[i]) \notin existingKeys(now, detectedChanges)],
              1)

NotificationType(changeType) ==
    IF changeType = "status_changed" THEN "status_change"
    ELSE IF changeType = "added" THEN "new_case"
    ELSE "change"

NotificationTitle(change) ==
    IF change.changeType = "added" THEN <<"New Case Added - Court", change.courtNo>>
    ELSE IF change.changeType = "updated" THEN <<"Case Updated - Court", change.courtNo>>
    ELSE IF change.changeType = "removed" THEN <<"Case Removed - Court", change.courtNo>>
    ELSE <<"Status Changed - Court", change.courtNo>>

\* changes.map(change => ({..., changeRecordId: change._id?.toString(), read: false}))
composeNotification(change, id) ==
    [timestamp |-> change.timestamp, courtNo |-> change.courtNo,
     type |-> NotificationType(change.changeType),
     title |-> NotificationTitle(change),
     changeRecordId |-> id, read |-> FALSE]

\* findOne({}) without the sort: any stored document.
LatestSchedulesUnsorted == DOMAIN schedules

\* scheduleCollection.findOne({}, {sort: {lastUpdated: -1}}): a document with
\* the greatest lastUpdated (any of them when several tie).
LatestSchedules ==
    {i \in DOMAIN schedules :
        \A j \in DOMAIN schedules : schedules[j].lastUpdated <= schedules[i].lastUpdated}

\* One invocation of pollSchedule() (kind "worker") or of POST (kind "monitor").
NewPoll(kind, byTimer) ==
    [kind |-> kind, pc |-> "fetch", byTimer |-> byTimer,
     parsed |-> << >>, lastCourts |-> None, now |-> 0,
     firstRun |-> FALSE,    \* findOne() answered null: no previous schedule
     found |-> << >>,       \* what detectChanges returned
     pending |-> << >>,     \* the handler's `changes` (after the filter)
     ids |-> << >>,         \* change._id of each element of `changes`
     duplicatesSkipped |-> 0,
     seen |-> 0,            \* size of 'changes' when the dedup query read it
     inserted |-> << >>,    \* _ids this invocation inserted into 'changes'
     notified |-> << >>,    \* indexes this invocation inserted into 'notifications'
     snapshot |-> None,     \* index this invocation inserted into 'schedules'
     outcome |-> "running"]

\* The handler has returned: its locals are gone, what it wrote stays.
Finished(poll, outcome) ==
    [NewPoll(poll.kind, poll.byTimer) EXCEPT
        !.pc = "done", !.outcome = outcome, !.firstRun = poll.firstRun,
        !.inserted = poll.inserted, !.notified = poll.notified,
        !.snapshot = poll.snapshot]

\* An await rejected: control is in the catch block, which reads none of the
\* locals of the try block.
Thrown(poll) == [Finished(poll, "running") EXCEPT !.pc = "catch"]

Active(p) == polls[p].pc # "done"
ActiveWorkers == {p \in DOMAIN polls : polls[p].kind = "worker" /\ Active(p)}

Set(p, changed) == polls' = [polls EXCEPT ![p] = changed]

\* The database the route starts over: empty, or holding the snapshot of one
\* earlier poll that found no table on the page.
Baseline == [lastUpdated |-> 0, courts |-> << >>]

\* The route; the worker is not part of this run.
Init ==
    /\ oldCourts = << >>
    /\ newCourts = << >>
    /\ detected = << >>
    /\ dphase = "build"
    /\ clock = 0
    /\ schedules \in {<< >>, <<Baseline>>}
    /\ changes = << >>
    /\ notifications = << >>
    /\ logs = 0
    /\ isRunning = FALSE
    /\ timerArmed = FALSE
    /\ lastTick = "none"
    /\ polls = << >>
    /\ RetrievalIdle
    /\ SolverIdle
    /\ OrderIdle
    /\ OthersIdle

\* startPolling(): pollSchedule() runs up to its first await, scheduleNext()
\* arms the timer. The database is as for the route.
WInit ==
    /\ oldCourts = << >>
    /\ newCourts = << >>
    /\ detected = << >>
    /\ dphase = "build"
    /\ clock = 0
    /\ schedules \in {<< >>, <<Baseline>>}
    /\ changes = << >>
    /\ notifications = << >>
    /\ logs = 0
    /\ isRunning = TRUE
    /\ timerArmed = TRUE
    /\ lastTick = "none"
    /\ polls = << NewPoll("worker", FALSE) >>
    /\ RetrievalIdle
    /\ SolverIdle
    /\ OrderIdle
    /\ OthersIdle

\* Time passes.
Advance ==
    /\ \E t \in Instants : t > clock /\ clock' = t
    /\ UNCHANGED <<schedules, changes, notifications, logs, isRunning, timerArmed,
                   lastTick, polls>>
    /\ UNCHANGED <<dvars, cvars, svars, ovars, xvars>>

\* pollSchedule() without its guard.
ShouldSkipNever == FALSE

\* pollSchedule(): if (isRunning) return;
ShouldSkip == isRunning

\* The setTimeout callback: pollSchedule().finally(() => scheduleNext()).
\* A skipped call returns at once, so the timer is armed again in the same turn.
Tick ==
    /\ timerArmed
    /\ IF ShouldSkip
       THEN /\ lastTick' = "skipped"
            /\ UNCHANGED <<isRunning, timerArmed, polls>>
       ELSE /\ Len(polls) < MaxPolls
            /\ lastTick' = "started"
            /\ isRunning' = TRUE
            /\ timerArmed' = FALSE
            /\ polls' = Append(polls, NewPoll("worker", TRUE))
    /\ UNCHANGED <<clock, schedules, changes, notifications, logs>>
    /\ UNCHANGED <<dvars, cvars, svars, ovars, xvars>>

\* A request reaches POST /api/monitor.
Request ==
    /\ Len(polls) < MaxRequests
    /\ polls' = Append(polls, NewPoll("monitor", FALSE))
    /\ UNCHANGED <<clock, schedules, changes, notifications, logs, isRunning,
                   timerArmed, lastTick>>
    /\ UNCHANGED <<dvars, cvars, svars, ovars, xvars>>

\* The worker's fetch(), or the route's retryWithBackoff(...), answers with the
\* page; parseCourtSchedule(html) follows.
Fetch(p) ==
    /\ polls[p].pc = "fetch"
    /\ \E page \in Pages :
          Set(p, [polls[p] EXCEPT !.parsed = page, !.pc = "findLast"])
    /\ UNCHANGED <<clock, schedules, changes, notifications, logs, isRunning,
                   timerArmed, lastTick>>
    /\ UNCHANGED <<dvars, cvars, svars, ovars, xvars>>

\* The worker's fetch() rejects or answers !ok; the route's
\* retryWithBackoff(...) rejects with its last error. Either way the await throws.
FetchFail(p) ==
    /\ polls[p].pc = "fetch"
    /\ Set(p, Thrown(polls[p]))
    /\ UNCHANGED <<clock, schedules, changes, notifications, logs, isRunning,
                   timerArmed, lastTick>>
    /\ UNCHANGED <<dvars, cvars, svars, ovars, xvars>>

\* Where the handler goes once `changes` is known.
AfterDetect(kind, found) ==
    IF found = << >> THEN "saveSchedule"
    ELSE IF kind = "monitor" THEN "dedup"
    ELSE "insertChanges"

\* A missing previous schedule read as an empty one:
\* detectChanges(lastSchedule?.courts || [], newCourts).
FindLastDiffsAgainstEmpty(p) ==
    /\ polls[p].pc = "findLast"
    /\ LET old == IF schedules = << >> THEN << >>
                  ELSE schedules[CHOOSE i \in LatestSchedules : TRUE].courts
           found == detectChanges(old, polls[p].parsed, clock)
       IN Set(p, [polls[p] EXCEPT
                    !.firstRun = (schedules = << >>),
                    !.lastCourts = Some(old),
                    !.now = clock,
                    !.found = found,
                    !.pending = found,
                    !.ids = [k \in DOMAIN found |-> None],
                    !.pc = AfterDetect(polls[p].kind, found)])
    /\ UNCHANGED <<clock, schedules, changes, notifications, logs, isRunning,
                   timerArmed, lastTick>>
    /\ UNCHANGED <<dvars, cvars, svars, ovars, xvars>>

\* findOne() answers; detectChanges(oldCourts, newCourts) runs in the same turn
\* (its `timestamp` and the route's `now` are read in that turn).
FindLast(p) ==
    /\ polls[p].pc = "findLast"
    /\ IF schedules = << >>
       THEN Set(p, [polls[p] EXCEPT !.firstRun = TRUE, !.pc = "saveSchedule"])
       ELSE \E i \in LatestSchedules :
              LET found == detectChanges(schedules[i].courts, polls[p].parsed, clock) IN
              Set(p, [polls[p] EXCEPT
                        !.lastCourts = Some(schedules[i].courts),
                        !.now = clock,
                        !.found = found,
                        !.pending = found,
                        !.ids = [k \in DOMAIN found |-> None],
                        !.pc = AfterDetect(polls[p].kind, found)])
    /\ UNCHANGED <<clock, schedules, changes, notifications, logs, isRunning,
                   timerArmed, lastTick>>
    /\ UNCHANGED <<dvars, cvars, svars, ovars, xvars>>

\* The dedup find() answers; the filter runs in the same turn.
Dedup(p) ==
    /\ polls[p].pc = "dedup"
    /\ LET unique == uniqueChanges(polls[p].now, polls[p].found) IN
       Set(p, [polls[p] EXCEPT
                 !.pending = unique,
                 !.ids = [k \in DOMAIN unique |-> None],
                 !.duplicatesSkipped = Len(polls[p].found) - Len(unique),
                 !.seen = Len(changes),
                 !.pc = IF unique = << >> THEN "saveSchedule" ELSE "insertChanges"])
    /\ UNCHANGED <<clock, schedules, changes, notifications, logs, isRunning,
                   timerArmed, lastTick>>
    /\ UNCHANGED <<dvars, cvars, svars, ovars, xvars>>

\* The _id each element of the handler's `changes` carries after insertMany.
\* The worker passes `changes` itself and the driver writes _id into the
\* documents it is given; the route passes copies made without _id.
IdsAfterInsert(kind, first, n) ==
    IF kind = "worker" THEN [k \in 1..n |-> Some(first + k)]
    ELSE [k \in 1..n |-> None]

\* changesCollection.insertMany(...) answers.
InsertChanges(p) ==
    /\ polls[p].pc = "insertChanges"
    /\ LET n == Len(polls[p].pending)
           first == Len(changes)
       IN /\ changes' = changes \o polls[p].pending
          /\ Set(p, [polls[p] EXCEPT
                       !.inserted = [k \in 1..n |-> first + k],
                       !.ids = IdsAfterInsert(polls[p].kind, first, n),
                       !.lastCourts = None, !.found = << >>, !.now = 0, !.seen = 0,
                       !.pc = "insertNotifications"])
    /\ UNCHANGED <<clock, schedules, notifications, logs, isRunning, timerArmed,
                   lastTick>>
    /\ UNCHANGED <<dvars, cvars, svars, ovars, xvars>>

\* notificationsCollection.insertMany(...) answers.
InsertNotifications(p) ==
    /\ polls[p].pc = "insertNotifications"
    /\ LET n == Len(polls[p].pending)
           first == Len(notifications)
       IN /\ notifications' = notifications \o
                [k \in 1..n |-> composeNotification(polls[p].pending[k], polls[p].ids[k])]
          /\ Set(p, [polls[p] EXCEPT
                       !.notified = [k \in 1..n |-> first + k],
                       !.pending = << >>, !.ids = << >>,
                       !.pc = "saveSchedule"])
    /\ UNCHANGED <<clock, schedules, changes, logs, isRunning, timerArmed, lastTick>>
    /\ UNCHANGED <<dvars, cvars, svars, ovars, xvars>>

\* isRunning reset at the end of the try block instead of in a finally block.
FinallyOnSuccessOnly(p) ==
    IF polls[p].kind = "worker"
    THEN /\ isRunning' = (polls[p].pc # "saveSchedule")
         /\ timerArmed' = (timerArmed \/ polls[p].byTimer)
    ELSE UNCHANGED <<isRunning, timerArmed>>

\* The worker's finally block and, for a poll the timer started, the
\* .finally(() => scheduleNext()) that follows it.
Finally(p) ==
    IF polls[p].kind = "worker"
    THEN /\ isRunning' = FALSE
         /\ timerArmed' = (timerArmed \/ polls[p].byTimer)
    ELSE UNCHANGED <<isRunning, timerArmed>>

\* scheduleCollection.insertOne(...) answers; the handler finishes.
SaveSchedule(p) ==
    /\ polls[p].pc = "saveSchedule"
    /\ schedules' = Append(schedules, [lastUpdated |-> clock, courts |-> polls[p].parsed])
    /\ Set(p, Finished([polls[p] EXCEPT !.snapshot = Some(Len(schedules) + 1)], "ok"))
    /\ Finally(p)
    /\ UNCHANGED <<clock, changes, notifications, logs, lastTick>>
    /\ UNCHANGED <<dvars, cvars, svars, ovars, xvars>>

\* A store call rejects: control moves to the catch block.
StoreFail(p) ==
    /\ polls[p].pc \in {"findLast", "dedup", "insertChanges", "insertNotifications",
                       "saveSchedule"}
    /\ Set(p, Thrown(polls[p]))
    /\ UNCHANGED <<clock, schedules, changes, notifications, logs, isRunning,
                   timerArmed, lastTick>>
    /\ UNCHANGED <<dvars, cvars, svars, ovars, xvars>>

\* The catch block. The worker logs to the console; the route inserts into
\* monitoring_logs inside its own try/catch and answers 500.
Catch(p) ==
    /\ polls[p].pc = "catch"
    /\ Set(p, Finished(polls[p], "failed"))
    /\ IF polls[p].kind = "monitor"
       THEN \E logged \in BOOLEAN : logs' = (IF logged THEN logs + 1 ELSE logs)
       ELSE logs' = logs
    /\ Finally(p)
    /\ UNCHANGED <<clock, schedules, changes, notifications, lastTick>>
    /\ UNCHANGED <<dvars, cvars, svars, ovars, xvars>>

Next ==
    \/ Advance
    \/ Request
    \/ \E p \in DOMAIN polls :
          \/ Fetch(p)
          \/ FetchFail(p)
          \/ FindLast(p)
          \/ Dedup(p)
          \/ InsertChanges(p)
          \/ InsertNotifications(p)
          \/ SaveSchedule(p)
          \/ StoreFail(p)
          \/ Catch(p)

Spec == Init /\ [][Next]_vars

WNext ==
    \/ Advance
    \/ Tick
    \/ \E p \in DOMAIN polls :
          \/ Fetch(p)
          \/ FetchFail(p)
          \/ FindLast(p)
          \/ InsertChanges(p)
          \/ InsertNotifications(p)
          \/ SaveSchedule(p)
          \/ StoreFail(p)
          \/ Catch(p)

SpecWorker == WInit /\ [][WNext]_vars

\* An await on the database settles, and the catch block runs to its end.
StoreAnswers ==
    \E p \in DOMAIN polls :
        \/ FindLast(p)
        \/ InsertChanges(p)
        \/ InsertNotifications(p)
        \/ SaveSchedule(p)
        \/ StoreFail(p)
        \/ Catch(p)

\* The worker under the scheduling Node guarantees: an armed setTimeout fires,
\* and a settled await is resumed. Nothing makes the upstream answer: fetch()
\* is called without a signal or a timeout, so Fetch and FetchFail carry no
\* fairness.
SpecWorkerFair ==
    WInit /\ [][WNext]_vars /\ WF_vars(Tick) /\ WF_vars(StoreAnswers)

(***************************************************************************)
(* solveCaptcha (elegalix, the variant that preprocesses with sharp)       *)
(***************************************************************************)
\* A captcha image: how many bytes it has and whether sharp can decode it.
SampleImages ==
    { [length |-> 0, decodable |-> FALSE],
      [length |-> 40, decodable |-> FALSE],
      [length |-> 900, decodable |-> TRUE] }

\* What one tesseract.recognize() run answers: it rejects (<< >>), or it
\* resolves with a text (<<text>>), a sequence of characters.
SampleTexts ==
    { <<"\n">>,
      <<"1", " ", "2", "3", "\n">>,
      <<"4", "0", "7", "1", "9", "\n">>,
      <<"8", "2", "6", "0", "3", "5">>,
      <<"8", "2", "6", "0", "3", "5", "1">> }

OcrAnswers == {None} \cup {Some(t) : t \in SampleTexts}

\* The recognize() calls of one solveCaptcha call, in program order: three on
\* the first image (psm 8, 7, 6), two on the enhanced image (psm 8, 7), one on
\* the re-thresholded image (psm 8).
FirstPass == <<1, 2, 3>>
EnhancedPass == <<4, 5>>
LastPass == 6

IsDigit(ch) == ch \in {"0", "1", "2", "3", "4", "5", "6", "7", "8", "9"}

\* text.replace(/\D/g, '')
DigitsOf(text) == SelectSeq(text, IsDigit)

\* s.padStart(6, '0')
PadStart6(d) == IF Len(d) >= 6 THEN d ELSE [i \in 1..(6 - Len(d)) |-> "0"] \o d

\* s.slice(0, 6)
Slice6(d) == IF Len(d) <= 6 THEN d ELSE SubSeq(d, 1, 6)

Returned(value) == [threw |-> FALSE, value |-> value, error |-> ""]
Threw(message) == [threw |-> TRUE, value |-> << >>, error |-> message]

\* One `for (const psm of ...)` loop: a run that throws is skipped, a run with
\* exactly 6 digits returns them at once, otherwise the longest digit string
\* so far is kept in bestResult (None is null).
RECURSIVE OcrLoop(_, _, _, _)
OcrLoop(answers, runs, i, best) ==
    IF i > Len(runs) THEN [ret |-> None, best |-> best]
    ELSE LET answer == answers[runs[i]] IN
         IF answer = None THEN OcrLoop(answers, runs, i + 1, best)
         ELSE LET digits == DigitsOf(answer[1])
                  bestLength == IF best = None THEN 0 ELSE Len(best[1])
              IN IF Len(digits) = 6 THEN [ret |-> Some(digits), best |-> best]
                 ELSE IF Len(digits) > bestLength
                      THEN OcrLoop(answers, runs, i + 1, Some(digits))
                      ELSE OcrLoop(answers, runs, i + 1, best)

\* bestResult is truthy: not null and not the empty string.
Truthy(best) == best # None /\ Len(best[1]) > 0

\* The tail of solveCaptcha, from the 5-digit padding on.
SolveTail(image, answers, best) ==
    IF Truthy(best) /\ Len(best[1]) = 5 THEN Returned(<<"0">> \o best[1])
    ELSE IF Truthy(best) /\ Len(best[1]) >= 4 THEN Returned(PadStart6(best[1]))
    ELSE LET \* sharp(processedImage) throws on an image it cannot decode
             retry == IF Truthy(best) /\ image.decodable /\ answers[LastPass] # None
                      THEN DigitsOf(answers[LastPass][1]) ELSE << >>
         IN IF Len(retry) >= 4 THEN Returned(Slice6(PadStart6(retry)))
            ELSE IF Truthy(best) THEN Returned(Slice6(PadStart6(best[1])))
            ELSE Threw("OCR failed: could not extract sufficient digits")

solveCaptcha(image, answers) ==
    IF image.length = 0 THEN Threw("Captcha image buffer is empty")
    ELSE LET first == OcrLoop(answers, FirstPass, 1, None) IN
         IF first.ret # None THEN Returned(first.ret[1])
         ELSE IF Truthy(first.best) /\ Len(first.best[1]) < 6 /\ image.decodable
              THEN LET second == OcrLoop(answers, EnhancedPass, 1, first.best) IN
                   IF second.ret # None THEN Returned(second.ret[1])
                   ELSE SolveTail(image, answers, second.best)
              ELSE SolveTail(image, answers, first.best)

SInit ==
    /\ PipelineIdle
    /\ DetectorIdle
    /\ RetrievalIdle
    /\ OrderIdle
    /\ OthersIdle
    /\ imageBuf \in SampleImages
    /\ ocr \in [1..LastPass -> OcrAnswers]
    /\ solved = << >>
    /\ sphase = "input"

Solve ==
    /\ sphase = "input"
    /\ solved' = Some(solveCaptcha(imageBuf, ocr))
    /\ sphase' = "done"
    /\ UNCHANGED <<imageBuf, ocr>>
    /\ UNCHANGED <<pvars, dvars, cvars, ovars, xvars>>

SNext == Solve

SpecSolve == SInit /\ [][SNext]_vars

(***************************************************************************)
(* Captcha sessions and document retrieval (elegalix)                      *)
(***************************************************************************)
SESSION_TTL_MS == 300000
LIB_MAX_RETRIES == 3      \* downloadJudgmentAuto(judgmentId, maxRetries = 3)
AUTO_MAX_RETRIES == 5     \* downloadJudgmentAuto(judgmentId, maxRetries = 5)
MaxCalls == 2             \* retrievals and captcha clients in a run
MaxOps == 1               \* route calls a captcha client makes with its session id

\* The instants at which a run reads Date.now().
CaptchaInstants == {0, 300000, 300001}

\* The document each call asks for: neighbouring calls ask for different ones.
JudgmentIds == <<"101", "202", "303">>
JudgmentIdOf(c) == JudgmentIds[((c - 1) % Len(JudgmentIds)) + 1]

\* Error messages, cut into pieces so that message.includes(x) is "x is one of
\* the pieces".
ErrPage == <<"Failed to load ", "captcha", " page (500)">>
ErrExpired == <<"Captcha session expired. Please retry.">>
ErrSixDigits == <<"Security code must be 6 digits">>
ErrRateLimited == <<"Upstream ", "rate-limit", "ed. Please wait a few seconds and try again.">>
ErrUpstream == <<"Upstream download failed (500)">>
ErrInvalidCode == <<"Invalid security code", " (", "captcha", "). Please retry.">>
ErrImageFetch == <<"Failed to fetch ", "captcha", " image (500)">>
ErrImageElement == <<"Could not find ", "captcha", " image element on page">>
ErrNavigation == <<"page.goto: Timeout 30000ms exceeded.">>
ErrOcr == <<"OCR failed: could not extract sufficient digits">>

Includes(message, piece) == piece \in Range(message)

\* The retry test of the variant with maxRetries = 5.
isCaptchaError(message) ==
    Includes(message, "Invalid security code") \/ Includes(message, "captcha")

\* The download route: msg.toLowerCase().includes('rate-limit') ? 429 : 400
RouteStatus(message) == IF Includes(message, "rate-limit") THEN 429 ELSE 400

\* /^\d{6}$/.test(securityCode)
IsSixDigits(code) == Len(code) = 6 /\ \A i \in DOMAIN code : IsDigit(code[i])

SecurityCodes ==
    { <<"8", "2", "6", "0", "3", "5">>,
      <<"8", "2", "6", "0", "3", "5", "1">> }

\* buf.slice(0, 15)
Slice15(buf) == IF Len(buf) <= 15 THEN buf ELSE SubSeq(buf, 1, 15)

ToLower(ch) ==
    CASE ch = "H" -> "h" [] ch = "T" -> "t" [] ch = "M" -> "m" [] ch = "L" -> "l"
      [] ch = "D" -> "d" [] ch = "O" -> "o" [] ch = "C" -> "c" [] ch = "Y" -> "y"
      [] ch = "P" -> "p" [] ch = "E" -> "e" [] ch = "F" -> "f" [] OTHER -> ch

toLowerCase(buf) == [i \in DOMAIN buf |-> ToLower(buf[i])]

\* haystack.includes(needle), character by character
IncludesChars(haystack, needle) ==
    \E k \in 0..(Len(haystack) - Len(needle)) :
        \A i \in DOMAIN needle : haystack[k + i] = needle[i]

HtmlTag == <<"<", "h", "t", "m", "l">>

\* What the upstream may answer to the form POST: status, the content-type
\* header (None when absent) in pieces, and the first bytes of the body.
Response(status, contentType, body) ==
    [status |-> status, contentType |-> contentType, body |-> body]

Responses ==
    { Response(200, Some(<<"application/", "pdf">>), <<"%", "P", "D", "F", "-", "1", ".", "4">>),
      Response(200, Some(<<"text/html", ";charset=UTF-8">>), <<"<", "H", "T", "M", "L", ">", "<", "h", "e", "a", "d", ">">>),
      Response(200, None, <<"<", "!", "D", "O", "C", "T", "Y", "P", "E", " ", "h", "t", "m", "l", ">", "<", "h", "t", "m", "l", ">">>),
      Response(200, Some(<<"text/plain">>), <<"E", "r", "r", "o", "r">>),
      Response(429, Some(<<"text/html">>), <<"<", "H", "T", "M", "L", ">", "<", "h", "e", "a", "d", ">">>),
      Response(500, Some(<<"text/html">>), <<"<", "H", "T", "M", "L", ">", "<", "h", "e", "a", "d", ">">>) }

\* res.headers.get('content-type') || 'application/octet-stream'
ContentTypeOf(res) ==
    IF res.contentType = None THEN <<"application/octet-stream">> ELSE res.contentType[1]

\* downloadJudgmentWithCaptcha after the fetch: None when it returns
\* {buf, contentType}, else the message of the error it throws.
DownloadError(res) ==
    IF res.status = 429 THEN Some(ErrRateLimited)
    ELSE IF res.status < 200 \/ res.status > 299 THEN Some(ErrUpstream)
    ELSE IF \/ Includes(ContentTypeOf(res), "text/html")
            \/ IncludesChars(toLowerCase(Slice15(res.body)), HtmlTag)
         THEN Some(ErrInvalidCode)
    ELSE None

\* SESSIONS.set(key, value)
Put(table, key, value) ==
    [k \in DOMAIN table \cup {key} |-> IF k = key THEN value ELSE table[k]]

\* Sessions are never dropped for their age.
cleanupSessionsKeepsAll(table, now) == table

\* cleanupSessions() at Date.now() = now
cleanupSessions(table, now) ==
    [id \in {k \in DOMAIN table : ~(now - table[k].createdAt > SESSION_TTL_MS)}
        |-> table[id]]

\* An id made of the timestamp alone.
makeIdByClock(random) == <<clock, << >> >>

\* makeId(): the timestamp and 8 random base-36 digits. A draw is named after
\* the call and the attempt that made it: no two draws are equal.
makeId(random) == <<clock, random>>

MaxRetries(kind) == IF kind = "auto3" THEN LIB_MAX_RETRIES ELSE AUTO_MAX_RETRIES

\* One invocation of downloadJudgmentAuto (kind "auto3": maxRetries = 3, every
\* error retried; kind "auto5": maxRetries = 5, captcha errors retried), or one
\* caller of startCaptchaSession, getCaptchaImage and
\* downloadJudgmentWithCaptcha through the captcha routes (kind "client").
NewCall(kind, judgmentId) ==
    [kind |-> kind, judgmentId |-> judgmentId, pc |-> "page",
     attempt |-> 0,        \* the loop variable `attempt`
     ops |-> 0,            \* client: route calls made with the session id
     sessionId |-> None,
     lastError |-> None,
     outcome |-> "running", \* "returned" / "raised" once the caller has its answer
     raised |-> None,      \* the error the caller got
     document |-> None,    \* the {buf, contentType} the caller got
     thrown |-> None,      \* the error the latest attempt ended with
     limited |-> FALSE,    \* the upstream answered 429 to a submission
     request |-> None,     \* the latest upstream request made with a session
     judged |-> FALSE,     \* a submission with sessionId was accepted or rejected
     lookup |-> None]      \* the latest SESSIONS.get(sessionId) of this call

\* The caller gets `message` as the error.
Raise(call, message) ==
    [call EXCEPT !.outcome = "raised", !.raised = Some(message),
                 !.pc = IF call.kind = "client" THEN "idle" ELSE "done"]

\* Every failure ends the retrying.
AfterFailureRaises(call, message) ==
    Raise([call EXCEPT !.thrown = Some(message), !.lastError = Some(message)], message)

\* The catch block of downloadJudgmentAuto, and what follows the loop; for a
\* client, the catch block of the route.
AfterFailure(call, message) ==
    LET failed == [call EXCEPT !.thrown = Some(message), !.lastError = Some(message)]
        last == call.attempt = MaxRetries(call.kind) - 1
    IN CASE call.kind = "client" -> Raise(failed, message)
         [] call.kind = "auto3" ->
              IF ~last THEN [failed EXCEPT !.pc = "backoff"]
              ELSE Raise(failed, failed.lastError[1])
         [] call.kind = "auto5" ->
              IF isCaptchaError(message) /\ ~last THEN [failed EXCEPT !.pc = "backoff"]
              ELSE Raise(failed, message)

\* A request to the upstream made with the session's data.
Sent(call, what, id, session) ==
    [call EXCEPT !.request = Some([what |-> what, sessionId |-> id,
                                   cookie |-> session.cookie,
                                   judgmentId |-> session.judgmentId])]

\* cleanupSessions(); SESSIONS.get(sessionId) at the top of getCaptchaImage and
\* of downloadJudgmentWithCaptcha, on the table cleanupSessions left.
Looked(call, table, now) ==
    [call EXCEPT !.lookup = Some([id |-> call.sessionId[1], at |-> now,
                                  found |-> call.sessionId[1] \in DOMAIN table,
                                  used |-> call.judged])]

\* getCaptchaImage(sessionId) up to its first await. The variant with
\* maxRetries = 5 loads the page in a browser of its own and sends no cookie
\* of the session.
getCaptchaImage(call, table, now) ==
    LET id == call.sessionId[1] IN
    IF id \notin DOMAIN table THEN AfterFailure(Looked(call, table, now), ErrExpired)
    ELSE IF call.kind = "auto5" THEN [Looked(call, table, now) EXCEPT !.pc = "image"]
    ELSE [Sent(Looked(call, table, now), "image", id, table[id]) EXCEPT !.pc = "image"]

\* downloadJudgmentWithCaptcha(sessionId, securityCode) up to its fetch.
downloadJudgmentWithCaptcha(call, code, table, now) ==
    LET id == call.sessionId[1] IN
    IF id \notin DOMAIN table THEN AfterFailure(Looked(call, table, now), ErrExpired)
    ELSE IF ~IsSixDigits(code) THEN AfterFailure(Looked(call, table, now), ErrSixDigits)
    ELSE [Sent(Looked(call, table, now), "submit", id, table[id]) EXCEPT !.pc = "submit"]

SetCall(c, changed) == calls' = [calls EXCEPT ![c] = changed]

CInit ==
    /\ PipelineIdle
    /\ DetectorIdle
    /\ SolverIdle
    /\ RetrievalIdle
    /\ OrderIdle
    /\ OthersIdle

\* Time passes.
Elapse ==
    /\ \E t \in CaptchaInstants : t > clock /\ clock' = t
    /\ UNCHANGED <<wvars, dvars, cvars, svars, ovars, xvars>>

\* A client posts a judgment id to the start route: startCaptchaSession runs
\* up to its fetch.
ClientStart ==
    /\ Len(calls) < MaxCalls
    /\ calls' = Append(calls, NewCall("client", JudgmentIdOf(Len(calls) + 1)))
    /\ SESSIONS' = cleanupSessions(SESSIONS, clock)
    /\ UNCHANGED <<clock, wvars, dvars, svars, ovars, xvars>>

\* The upstream answers the page request with a session cookie of its own
\* making: the session is stored. downloadJudgmentAuto goes on to
\* getCaptchaImage in the same turn; a client gets the session id.
PageResponse(c) ==
    /\ calls[c].pc = "page"
    /\ LET fresh == <<c, calls[c].attempt>>
           id == makeId(fresh)
           session == [cookie |-> fresh, judgmentId |-> calls[c].judgmentId,
                       createdAt |-> clock]
           table == Put(SESSIONS, id, session)
           opened == [calls[c] EXCEPT !.sessionId = Some(id), !.judged = FALSE]
       IN IF calls[c].kind = "client"
          THEN /\ SESSIONS' = table
               /\ SetCall(c, [opened EXCEPT !.pc = "idle", !.outcome = "returned"])
          ELSE /\ SESSIONS' = cleanupSessions(table, clock)
               /\ SetCall(c, getCaptchaImage(opened, cleanupSessions(table, clock), clock))
    /\ UNCHANGED <<clock, wvars, dvars, svars, ovars, xvars>>

\* The upstream answers the page request with an error status.
PageFail(c) ==
    /\ calls[c].pc = "page"
    /\ SetCall(c, AfterFailure(calls[c], ErrPage))
    /\ UNCHANGED SESSIONS
    /\ UNCHANGED <<clock, wvars, dvars, svars, ovars, xvars>>

\* What a client's next route call starts from.
NextOp(call) ==
    [call EXCEPT !.ops = @ + 1, !.outcome = "running", !.raised = None,
                 !.document = None, !.lastError = None, !.thrown = None,
                 !.limited = FALSE]

\* A client asks the captcha-image route for the image of its session.
ClientImage(c) ==
    /\ calls[c].kind = "client" /\ calls[c].pc = "idle" /\ calls[c].sessionId # None
    /\ calls[c].ops < MaxOps
    /\ SESSIONS' = cleanupSessions(SESSIONS, clock)
    /\ SetCall(c, getCaptchaImage(NextOp(calls[c]), SESSIONS', clock))
    /\ UNCHANGED <<clock, wvars, dvars, svars, ovars, xvars>>

\* The request has been answered: nothing is in flight any more.
Answered(call) == [call EXCEPT !.request = None, !.lookup = None]

\* The captcha image arrives: a client gets it, downloadJudgmentAuto hands it
\* to solveCaptcha.
ImageResponse(c) ==
    /\ calls[c].pc = "image"
    /\ IF calls[c].kind = "client"
       THEN SetCall(c, [Answered(calls[c]) EXCEPT !.pc = "idle", !.outcome = "returned"])
       ELSE SetCall(c, [Answered(calls[c]) EXCEPT !.pc = "ocr"])
    /\ UNCHANGED SESSIONS
    /\ UNCHANGED <<clock, wvars, dvars, svars, ovars, xvars>>

ImageErrors(kind) ==
    IF kind = "auto5" THEN {ErrImageElement, ErrNavigation} ELSE {ErrImageFetch}

\* getCaptchaImage throws after its first await.
ImageFail(c) ==
    /\ calls[c].pc = "image"
    /\ \E message \in ImageErrors(calls[c].kind) :
          SetCall(c, AfterFailure(Answered(calls[c]), message))
    /\ UNCHANGED SESSIONS
    /\ UNCHANGED <<clock, wvars, dvars, svars, ovars, xvars>>

\* What solveCaptcha can return: 6 digits, or, in the variant that pads its
\* best result, a longer digit string.
SolvedCodes(kind) ==
    IF kind = "auto5" THEN SecurityCodes ELSE {code \in SecurityCodes : Len(code) = 6}

\* solveCaptcha returns; downloadJudgmentWithCaptcha runs up to its fetch.
Solved(c) ==
    /\ calls[c].pc = "ocr"
    /\ SESSIONS' = cleanupSessions(SESSIONS, clock)
    /\ \E code \in SolvedCodes(calls[c].kind) :
          SetCall(c, downloadJudgmentWithCaptcha(calls[c], code, SESSIONS', clock))
    /\ UNCHANGED <<clock, wvars, dvars, svars, ovars, xvars>>

\* solveCaptcha throws.
SolveFail(c) ==
    /\ calls[c].pc = "ocr"
    /\ SetCall(c, AfterFailure(calls[c], ErrOcr))
    /\ UNCHANGED SESSIONS
    /\ UNCHANGED <<clock, wvars, dvars, svars, ovars, xvars>>

\* A client posts its session id and a code to the download route.
ClientSubmit(c) ==
    /\ calls[c].kind = "client" /\ calls[c].pc = "idle" /\ calls[c].sessionId # None
    /\ calls[c].ops < MaxOps
    /\ SESSIONS' = cleanupSessions(SESSIONS, clock)
    /\ \E code \in SecurityCodes :
          SetCall(c, downloadJudgmentWithCaptcha(NextOp(calls[c]), code, SESSIONS', clock))
    /\ UNCHANGED <<clock, wvars, dvars, svars, ovars, xvars>>

\* The upstream answers the form POST.
SubmitResponse(c) ==
    /\ calls[c].pc = "submit"
    /\ \E res \in Responses :
          LET error == DownloadError(res)
              judged == error = None \/ error = Some(ErrInvalidCode)
              seen == [Answered(calls[c]) EXCEPT
                          !.limited = @ \/ res.status = 429,
                          !.judged = @ \/ judged]
          IN IF error = None
             THEN SetCall(c, [seen EXCEPT
                                !.outcome = "returned",
                                !.document = Some([contentType |-> ContentTypeOf(res),
                                                   buf |-> res.body]),
                                !.pc = IF seen.kind = "client" THEN "idle" ELSE "done"])
             ELSE SetCall(c, AfterFailure(seen, error[1]))
    /\ UNCHANGED SESSIONS
    /\ UNCHANGED <<clock, wvars, dvars, svars, ovars, xvars>>

\* The backoff timer fires: the next attempt starts with startCaptchaSession.
BackoffDone(c) ==
    /\ calls[c].pc = "backoff"
    /\ SESSIONS' = cleanupSessions(SESSIONS, clock)
    /\ SetCall(c, [calls[c] EXCEPT !.attempt = @ + 1, !.pc = "page",
                                   !.sessionId = None, !.judged = FALSE])
    /\ UNCHANGED <<clock, wvars, dvars, svars, ovars, xvars>>

\* The callers of the captcha routes, interleaved over one session table.
CNext ==
    \/ Elapse
    \/ ClientStart
    \/ \E c \in DOMAIN calls :
          \/ PageResponse(c)
          \/ PageFail(c)
          \/ ClientImage(c)
          \/ ImageResponse(c)
          \/ ImageFail(c)
          \/ ClientSubmit(c)
          \/ SubmitResponse(c)

SpecCaptcha == CInit /\ [][CNext]_vars

\* One invocation of downloadJudgmentAuto, of either variant, on its own: the
\* first startCaptchaSession has run up to its fetch.
AInit ==
    /\ PipelineIdle
    /\ DetectorIdle
    /\ SolverIdle
    /\ OrderIdle
    /\ OthersIdle
    /\ SESSIONS = << >>
    /\ \E kind \in {"auto3", "auto5"} : calls = << NewCall(kind, JudgmentIdOf(1)) >>

ANext ==
    \/ Elapse
    \/ \E c \in DOMAIN calls :
          \/ PageResponse(c)
          \/ PageFail(c)
          \/ ImageResponse(c)
          \/ ImageFail(c)
          \/ Solved(c)
          \/ SolveFail(c)
          \/ SubmitResponse(c)
          \/ BackoffDone(c)

SpecAuto == AInit /\ [][ANext]_vars

(***************************************************************************)
(* Order judgments (downloadOrderJudgment)                                 *)
(***************************************************************************)
maxAttempts == 5

\* What a response can carry as Set-Cookie; `stamp` names the response that
\* set the value. The second line has no name before its '='.
SetCookies(stamp) ==
    { << >>,
      << [name |-> "JSESSIONID", value |-> stamp] >>,
      << [name |-> "", value |-> stamp] >> }

RECURSIVE updateCookieJar(_, _)
\* updateCookieJar(cookieJar, response): lines without a name are skipped.
updateCookieJar(cookieJar, lines) ==
    IF lines = << >> THEN cookieJar
    ELSE IF Head(lines).name = "" THEN updateCookieJar(cookieJar, Tail(lines))
    ELSE updateCookieJar(Put(cookieJar, Head(lines).name, Head(lines).value), Tail(lines))

\* toCookieHeader(cookieJar): the name=value pairs of the jar.
toCookieHeader(cookieJar) == { <<k, cookieJar[k]>> : k \in DOMAIN cookieJar }

IsSpace(ch) == ch \in {" ", "\n"}

RECURSIVE TrimStart(_)
TrimStart(text) ==
    IF text # << >> /\ IsSpace(Head(text)) THEN TrimStart(Tail(text)) ELSE text

RECURSIVE TrimEnd(_)
TrimEnd(text) ==
    IF text # << >> /\ IsSpace(text[Len(text)])
    THEN TrimEnd(SubSeq(text, 1, Len(text) - 1)) ELSE text

\* String.prototype.trim()
Trim(text) == TrimEnd(TrimStart(text))

\* The tokens generateCaptcha can answer with: six digits, six digits and a
\* newline, the base64 of six digits, the base64 of five digits, nothing.
CaptchaTokens ==
    { <<"8", "2", "6", "0", "3", "5">>,
      <<"8", "2", "6", "0", "3", "5", "\n">>,
      <<"O", "D", "I", "2", "M", "D", "M", "1">>,
      <<"O", "D", "I", "2", "M", "D", "M", "=">>,
      << >> }

\* Buffer.from(clean, 'base64').toString('utf8') on those tokens.
Base64Decode(text) ==
    CASE text = <<"O", "D", "I", "2", "M", "D", "M", "1">> -> <<"8", "2", "6", "0", "3", "5">>
      [] text = <<"O", "D", "I", "2", "M", "D", "M", "=">> -> <<"8", "2", "6", "0", "3">>
      [] text = <<"8", "2", "6", "0", "3", "5">> -> <<"?", "m", "?", "?">>
      [] OTHER -> << >>

\* decodeCaptchaToken(token): None when it throws.
decodeCaptchaToken(token) ==
    LET clean == Trim(token)
        decoded == Trim(Base64Decode(clean))
    IN IF IsSixDigits(clean) THEN Some(clean)
       ELSE IF IsSixDigits(decoded) THEN Some(decoded)
       ELSE None

\* What the upstream may answer to the form POST of downloadOrderJudgment.
OrderResponses ==
    Responses \cup
    { Response(200, Some(<<"application/", "PDF">>), <<"%", "P", "D", "F", "-", "1", ".", "7">>),
      Response(200, Some(<<"application/", "pdf">>), <<"%", "P", "D", "F">>),
      Response(200, Some(<<"application/", "pdf">>), <<"<", "h", "t", "m", "l", ">", "<", "p", ">">>) }

LowerPiece(piece) == IF piece = "PDF" THEN "pdf" ELSE piece

\* (fileRes.headers.get('content-type') || '').toLowerCase()
OrderContentType(res) ==
    IF res.contentType = None THEN << >>
    ELSE [i \in DOMAIN res.contentType[1] |-> LowerPiece(res.contentType[1][i])]

\* The two tests a response passes before it is returned.
OrderAccepts(res) ==
    /\ res.status >= 200 /\ res.status <= 299
    /\ Includes(OrderContentType(res), "pdf")
    /\ ~(Len(res.body) < 8 \/ SubSeq(res.body, 1, 4) # <<"%", "P", "D", "F">>)

ErrOpenPage == <<"Failed to open eLegalix page: 500">>
ErrAttempts == <<"Failed to download judgment after multiple ", "captcha", " attempts">>

\* The invocation after new Map(), its first fetch pending.
NewOrder(judgmentId) ==
    [judgmentId |-> judgmentId, pc |-> "page",
     attempt |-> 0,          \* the loop variable `attempt`; 0 before the loop
     cookieJar |-> << >>,
     opened |-> 0,           \* fetches of the view page, which open a session
     request |-> None,       \* the latest request sent with a Cookie header
     after |-> "start",      \* how the previous attempt ended
     outcome |-> "running",
     raised |-> None,
     result |-> None,
     accepted |-> None]      \* the attempt whose response was returned

\* A request of attempt `attempt` with Cookie: toCookieHeader(cookieJar).
OrderSend(o, what, attempt) ==
    [o EXCEPT !.request = Some([what |-> what, attempt |-> attempt,
                                cookie |-> toCookieHeader(o.cookieJar)])]

\* `continue`, or the first pass of the loop: the next attempt's
\* generateCaptcha request goes out, or the loop ends and the function throws.
NextAttempt(o, why) ==
    IF o.attempt + 1 <= maxAttempts
    THEN [OrderSend(o, "captcha", o.attempt + 1) EXCEPT
             !.attempt = o.attempt + 1, !.pc = "captcha", !.after = why]
    ELSE [o EXCEPT !.pc = "done", !.outcome = "raised", !.raised = Some(ErrAttempts),
                   !.after = why]

OInit ==
    /\ PipelineIdle
    /\ DetectorIdle
    /\ SolverIdle
    /\ RetrievalIdle
    /\ OthersIdle
    /\ order = Some(NewOrder(JudgmentIdOf(1)))

SetOrder(o) == order' = Some(o)

\* initRes arrives.
OrderPage ==
    /\ order[1].pc = "page"
    /\ \E ok \in BOOLEAN, lines \in SetCookies(<<0, "page">>) :
          LET o == [order[1] EXCEPT !.cookieJar = updateCookieJar(@, lines),
                                    !.opened = @ + 1]
          IN IF ~ok
             THEN SetOrder([o EXCEPT !.pc = "done", !.outcome = "raised",
                                     !.raised = Some(ErrOpenPage)])
             ELSE SetOrder(NextAttempt(o, "start"))
    /\ UNCHANGED <<pvars, dvars, cvars, svars, xvars>>

\* captchaRes arrives.
OrderCaptcha ==
    /\ order[1].pc = "captcha"
    /\ \E ok \in BOOLEAN, token \in CaptchaTokens,
          lines \in SetCookies(<<order[1].attempt, "captcha">>) :
          LET o == [order[1] EXCEPT !.cookieJar = updateCookieJar(@, lines)]
          IN IF ~ok THEN SetOrder(NextAttempt(o, "status"))
             ELSE IF decodeCaptchaToken(token) = None THEN SetOrder(NextAttempt(o, "token"))
             ELSE SetOrder([OrderSend(o, "file", o.attempt) EXCEPT !.pc = "file"])
    /\ UNCHANGED <<pvars, dvars, cvars, svars, xvars>>

\* fileRes arrives.
OrderFile ==
    /\ order[1].pc = "file"
    /\ \E res \in OrderResponses, lines \in SetCookies(<<order[1].attempt, "file">>) :
          LET o == [order[1] EXCEPT !.cookieJar = updateCookieJar(@, lines)]
          IN IF OrderAccepts(res)
             THEN SetOrder([o EXCEPT
                     !.pc = "done", !.outcome = "returned",
                     !.accepted = Some(o.attempt),
                     !.result = Some([judgmentId |-> o.judgmentId,
                                      mimeType |-> "application/pdf",
                                      sizeBytes |-> Len(res.body),
                                      data |-> res.body])])
             ELSE SetOrder(NextAttempt(o, "rejected"))
    /\ UNCHANGED <<pvars, dvars, cvars, svars, xvars>>

ONext ==
    \/ OrderPage
    \/ OrderCaptcha
    \/ OrderFile

SpecOrder == OInit /\ [][ONext]_vars

(***************************************************************************)
(* parseCourtSchedule (lib/parser.ts)                                      *)
(***************************************************************************)
MaxRows == 3        \* rows (tr) of the first table, the header row included

\* A cell's text is a sequence of pieces; " " and "\n" are white space, and
\* text.includes(x), text.match(label + value) look for whole pieces.
NotInSessionMark == "NOT in session"
CaseLabel == "Case Details - "
TitleLabel == "Title :"
PetitionerLabel == "Petitioner's Counsels - "
RespondentLabel == "Respondent's Counsel - "

\* A row is the sequence of the texts of its td cells.
SampleRows ==
    { << >>,
      << <<"3">>, <<"Court is ", NotInSessionMark>> >>,
      << <<" ", "3", "\n">>, <<"1">>, <<"Daily">>, <<"Hearing">>,
         <<CaseLabel, "WRIT/123/2024", TitleLabel, "A Vs. B",
           PetitionerLabel, "A. Kumar, B. Singh">> >>,
      << <<"5">>, <<"1">>, <<"Fresh">>, <<"Passed over">>,
         <<"Court is ", NotInSessionMark>> >>,
      << <<"5">>, <<" ">>, << >>, << >>, << >> >>,
      << <<"7">>, <<"2">>, <<"Daily">>, << >>, <<"Adjourned">> >>,
      << <<"7">>, <<NotInSessionMark>>, <<"Daily">>, <<"Hearing">>,
         <<TitleLabel, "C Vs. D", RespondentLabel, "S. Rao">> >> }

\* $(cells[k]).text().trim(); a missing cell reads as the empty string.
CellText(cells, k) == IF k <= Len(cells) THEN Trim(cells[k]) ELSE << >>

\* text || null
OrNull(text) == IF text = << >> THEN None ELSE Some(text)

\* The first capture group of text.match(label ... value): the piece after
\* the label, "" when the text has no such label.
Capture(text, label) ==
    IF \E i \in 1..(Len(text) - 1) : text[i] = label
    THEN text[(CHOOSE i \in 1..(Len(text) - 1) :
                  text[i] = label /\ \A j \in 1..(i - 1) : text[j] # label) + 1]
    ELSE ""

\* counselsText.split(',').map(c => c.trim()).filter(c => c)
SplitCounsels(counselsText) ==
    CASE counselsText = "" -> << >>
      [] counselsText = "A. Kumar, B. Singh" -> <<"A. Kumar", "B. Singh">>
      [] OTHER -> <<counselsText>>

\* The case details block of one row (lines 57-103).
ParseCaseDetails(caseDetailsText) ==
    LET caseNumber == Capture(caseDetailsText, CaseLabel)
        title == Capture(caseDetailsText, TitleLabel)
    IN IF caseDetailsText = << >> \/ (caseNumber = "" /\ title = "") THEN None
       ELSE Some([caseNumber |-> IF caseNumber = "" THEN "N/A" ELSE caseNumber,
                  title |-> IF title = "" THEN "N/A" ELSE title,
                  petitionerCounsels |->
                      SplitCounsels(Capture(caseDetailsText, PetitionerLabel)),
                  respondentCounsels |->
                      SplitCounsels(Capture(caseDetailsText, RespondentLabel))])

\* A row parsed with the cells copied whatever the session marker says.
ParseRowCopiesCells(cells) ==
    LET caseDetailsText == CellText(cells, 5)
        isInSession == /\ ~Includes(CellText(cells, 2), NotInSessionMark)
                       /\ ~Includes(caseDetailsText, NotInSessionMark)
    IN CourtCase(CellText(cells, 1), OrNull(CellText(cells, 2)),
                 OrNull(CellText(cells, 3)), OrNull(CellText(cells, 4)),
                 ParseCaseDetails(caseDetailsText), isInSession)

\* The body of the .each() callback for a row with cells.
ParseRow(cells) ==
    LET serialNoText == CellText(cells, 2)
        caseDetailsText == CellText(cells, 5)
        isInSession == /\ ~Includes(serialNoText, NotInSessionMark)
                       /\ ~Includes(caseDetailsText, NotInSessionMark)
    IN IF isInSession
       THEN CourtCase(CellText(cells, 1), OrNull(serialNoText),
                      OrNull(CellText(cells, 3)), OrNull(CellText(cells, 4)),
                      ParseCaseDetails(caseDetailsText), TRUE)
       ELSE CourtCase(CellText(cells, 1), None, None, None, None, FALSE)

RECURSIVE EachRow(_, _)
\* table.find('tr').slice(1).each(...): rows without cells push nothing.
EachRow(rows, i) ==
    IF i > Len(rows) THEN << >>
    ELSE (IF Len(rows[i]) = 0 THEN << >> ELSE << ParseRow(rows[i]) >>)
            \o EachRow(rows, i + 1)

\* parseCourtSchedule(html), html given as the rows of its first table.
parseCourtSchedule(rows) == EachRow(rows, 2)

ParseInit ==
    /\ PipelineIdle
    /\ DetectorIdle
    /\ RetrievalIdle
    /\ SolverIdle
    /\ OrderIdle
    /\ RetryIdle /\ RankingIdle /\ CounselIdle
    /\ \E n \in 0..MaxRows : html \in [1..n -> SampleRows]
    /\ parsedCourts = << >>

Parse ==
    /\ parsedCourts = None
    /\ parsedCourts' = Some(parseCourtSchedule(html))
    /\ UNCHANGED <<html, retrying, ocrRuns, candidates, counsel>>
    /\ UNCHANGED <<pvars, dvars, cvars, svars, ovars>>

ParseNext == Parse

SpecParse == ParseInit /\ [][ParseNext]_vars

(***************************************************************************)
(* The schedule fetch of a poll: retryWithBackoff(fn, 3, 1000) in the      *)
(* route, a bare fetch() in the worker                                     *)
(***************************************************************************)
ROUTE_MAX_RETRIES == 3        \* retryWithBackoff(..., 3, 1000)
ROUTE_INITIAL_DELAY == 1000

\* How much later than asked an answer or a timer may come, in milliseconds.
Lateness == {0, 250}

FetchErrors == {"Failed to fetch: 500 Internal Server Error", "fetch failed"}
FetchedPages == {"<html>court table</html>"}

\* The fetch of one poll, its first attempt pending.
NewFetch(kind) ==
    [kind |-> kind, pc |-> "fn",
     attempt |-> 0,          \* the loop variable `attempt`
     tries |-> << >>,        \* every fetch made: when it was answered, and how
     waits |-> << >>,        \* every setTimeout delay waited, and when it ended
     lastError |-> None,
     outcome |-> "running",
     result |-> None,        \* the html the poll goes on with
     raised |-> None]        \* the error that reaches the poll's catch block

\* The catch block of retryWithBackoff for a failed attempt that is not the
\* last, and the worker's fetch, which has no such block.
AfterFetchError(f, error) ==
    IF f.kind = "monitor" /\ f.attempt < ROUTE_MAX_RETRIES - 1
    THEN [f EXCEPT !.lastError = Some(error), !.pc = "wait"]
    ELSE [f EXCEPT !.lastError = Some(error), !.pc = "done",
                   !.outcome = "raised", !.raised = Some(error)]

\* initialDelay * Math.pow(2, attempt)
BackoffDelay(attempt) == ROUTE_INITIAL_DELAY * (2 ^ attempt)

RInit ==
    /\ PipelineIdle
    /\ DetectorIdle
    /\ RetrievalIdle
    /\ SolverIdle
    /\ OrderIdle
    /\ ParserIdle /\ RankingIdle /\ CounselIdle
    /\ \E kind \in {"monitor", "worker"} : retrying = Some(NewFetch(kind))

\* fetch() answers 2xx and response.text() resolves.
FetchOk ==
    /\ retrying[1].pc = "fn"
    /\ \E late \in Lateness, page \in FetchedPages :
          /\ clock' = clock + late
          /\ retrying' = Some([retrying[1] EXCEPT
                 !.tries = Append(@, [at |-> clock', ok |-> TRUE, value |-> page]),
                 !.pc = "done", !.outcome = "returned", !.result = Some(page)])
    /\ UNCHANGED <<html, parsedCourts, ocrRuns, candidates, counsel>>
    /\ UNCHANGED <<wvars, dvars, cvars, svars, ovars>>

\* fetch() rejects, or answers !ok and the callback throws.
FetchError ==
    /\ retrying[1].pc = "fn"
    /\ \E late \in Lateness, error \in FetchErrors :
          /\ clock' = clock + late
          /\ retrying' = Some(AfterFetchError(
                 [retrying[1] EXCEPT
                     !.tries = Append(@, [at |-> clock', ok |-> FALSE, value |-> error])],
                 error))
    /\ UNCHANGED <<html, parsedCourts, ocrRuns, candidates, counsel>>
    /\ UNCHANGED <<wvars, dvars, cvars, svars, ovars>>

\* The setTimeout of the backoff fires: the loop goes on with fn().
BackoffOver ==
    /\ retrying[1].pc = "wait"
    /\ \E late \in Lateness :
          /\ clock' = clock + BackoffDelay(retrying[1].attempt) + late
          /\ retrying' = Some([retrying[1] EXCEPT
                 !.waits = Append(@, [delay |-> BackoffDelay(retrying[1].attempt),
                                      until |-> clock']),
                 !.attempt = @ + 1, !.pc = "fn"])
    /\ UNCHANGED <<html, parsedCourts, ocrRuns, candidates, counsel>>
    /\ UNCHANGED <<wvars, dvars, cvars, svars, ovars>>

RNext == FetchOk \/ FetchError \/ BackoffOver

SpecRetry == RInit /\ [][RNext]_vars

(***************************************************************************)
(* Captcha candidates (getAllahabadCaptchaCandidates)                      *)
(***************************************************************************)
MaxReads == 4       \* OCR runs, of the 18 made, whose output is drawn freely

\* What a tesseract run may print.
SampleReads ==
    { << >>,
      <<"1", "2", "3", "4", "\n">>,
      <<"1", "2", "3", "4", "5", "\n">>,
      <<"5", "6", ".", "7", "8">>,
      <<"9", "9">> }

\* runTesseractDigits: out.replace(/\D/g, '').trim()
runTesseractDigits(out) == Trim(DigitsOf(out))

RECURSIVE Scored(_, _, _)
\* The Map `scored` after the runs from i on: its entries in insertion order.
Scored(runs, i, entries) ==
    IF i > Len(runs) THEN entries
    ELSE LET candidate == runTesseractDigits(runs[i]) IN
         IF candidate = << >> THEN Scored(runs, i + 1, entries)
         ELSE IF \E k \in DOMAIN entries : entries[k][1] = candidate
         THEN Scored(runs, i + 1,
                     [k \in DOMAIN entries |->
                         IF entries[k][1] = candidate
                         THEN <<candidate, entries[k][2] + 1>> ELSE entries[k]])
         ELSE Scored(runs, i + 1, Append(entries, <<candidate, 1>>))

\* /^\d{4}$/.test(candidate) ? 1 : 0
Len4(candidate) ==
    IF Len(candidate) = 4 /\ \A i \in DOMAIN candidate : IsDigit(candidate[i])
    THEN 1 ELSE 0

\* The comparator of the sort: negative when a goes first.
CompareCandidates(a, b) ==
    IF Len4(a[1]) # Len4(b[1]) THEN Len4(b[1]) - Len4(a[1])
    ELSE IF a[2] # b[2] THEN b[2] - a[2]
    ELSE Len(b[1]) - Len(a[1])

\* e put into a sorted list, behind everything that does not go after it.
InsertSorted(sorted, e) ==
    LET behind == {k \in DOMAIN sorted : CompareCandidates(sorted[k], e) > 0}
        at == IF behind = {} THEN Len(sorted) + 1
              ELSE CHOOSE k \in behind : \A m \in behind : k <= m
    IN SubSeq(sorted, 1, at - 1) \o <<e>> \o SubSeq(sorted, at, Len(sorted))

RECURSIVE SortEntries(_, _, _)
\* Array.prototype.sort, which is stable.
SortEntries(entries, i, sorted) ==
    IF i > Len(entries) THEN sorted
    ELSE SortEntries(entries, i + 1, InsertSorted(sorted, entries[i]))

\* getAllahabadCaptchaCandidates, given what its OCR runs print.
getAllahabadCaptchaCandidates(runs) ==
    LET sorted == SortEntries(Scored(runs, 1, << >>), 1, << >>)
    IN [k \in DOMAIN sorted |-> sorted[k][1]]

KInit ==
    /\ PipelineIdle
    /\ DetectorIdle
    /\ RetrievalIdle
    /\ SolverIdle
    /\ OrderIdle
    /\ ParserIdle /\ RetryIdle /\ CounselIdle
    /\ \E n \in 0..MaxReads : ocrRuns \in [1..n -> SampleReads]
    /\ candidates = << >>

Rank ==
    /\ candidates = None
    /\ candidates' = Some(getAllahabadCaptchaCandidates(ocrRuns))
    /\ UNCHANGED <<html, parsedCourts, retrying, ocrRuns, counsel>>
    /\ UNCHANGED <<pvars, dvars, cvars, svars, ovars>>

KNext == Rank

SpecRank == KInit /\ [][KNext]_vars

(***************************************************************************)
(* The schedule routes (GET /api/schedule, POST /api/schedule/upload)      *)
(* next to the monitor route                                               *)
(***************************************************************************)
MaxSnapshots == 3   \* documents in 'schedules' beyond which the schedule routes are not called
MaxMonitorCalls == 1   \* calls of POST /api/monitor made next to the schedule routes

\* GET /api/schedule fetches and parses the page, POST /api/schedule/upload
\* parses the html it is given; both then insert the parsed schedule, reading
\* nothing from the store. A failed fetch or insert answers 500 and leaves
\* the store as it was.
ScheduleSave ==
    /\ Len(schedules) < MaxSnapshots
    /\ \E page \in Pages :
          schedules' = Append(schedules, [lastUpdated |-> clock, courts |-> page])
    /\ UNCHANGED <<clock, changes, notifications, logs, isRunning, timerArmed,
                   lastTick, polls>>
    /\ UNCHANGED <<dvars, cvars, svars, ovars, xvars>>

\* A call of POST /api/monitor, while fewer than MaxMonitorCalls were made.
MonitorCall ==
    /\ Len(polls) < MaxMonitorCalls
    /\ Request

SchNext ==
    \/ Advance
    \/ MonitorCall
    \/ ScheduleSave
    \/ \E p \in DOMAIN polls :
          \/ Fetch(p)
          \/ FetchFail(p)
          \/ FindLast(p)
          \/ Dedup(p)
          \/ InsertChanges(p)
          \/ InsertNotifications(p)
          \/ SaveSchedule(p)
          \/ StoreFail(p)
          \/ Catch(p)

SpecSchedule == Init /\ [][SchNext]_vars

(***************************************************************************)
(* fetchCounselRows: the counsel search behind a captcha                   *)
(***************************************************************************)
maxImages == 18
maxCodesPerImage == 16
MaxCandidates == 17   \* longest candidate list getCounselCaptchaCandidates is given to yield

ErrInitCounsel == "Failed to initialize counsel search"
ErrSourceCounsel == "Source returned an error while fetching counsel cause list"
ErrUnableCounsel == "Unable to solve counsel captcha automatically after multiple attempts"
ErrNetwork == "fetch failed"
ErrImage == "Input buffer contains unsupported image format"
ErrJson == "Unexpected token in JSON"

\* Lengths of the list getCounselCaptchaCandidates(image) returns; the codes
\* of a list are told apart by their position only.
CandidateCounts == {0, 1, 3, MaxCandidates}

\* Elements of an answered JSON array: an object, null and a number.
RowObject == [json |-> "object", truthy |-> TRUE, isObject |-> TRUE]
RowNull == [json |-> "null", truthy |-> FALSE, isObject |-> TRUE]
RowNumber == [json |-> "number", truthy |-> TRUE, isObject |-> FALSE]

\* Bodies the result endpoint answers with status ok: text without a bracket,
\* text whose bracketed part is not JSON, an array, or an object with or
\* without the fields the loop looks at.
CounselBodies ==
    {[kind |-> "text"], [kind |-> "garbage"]}
    \cup {[kind |-> "array", rows |-> r] :
             r \in {<< >>, <<RowObject>>, <<RowNull, RowObject>>, <<RowObject, RowNumber>>}}
    \cup {[kind |-> "object", invalidSession |-> s, captchaError |-> c, error |-> e] :
             s \in BOOLEAN, c \in BOOLEAN, e \in BOOLEAN}

\* parseJsonLoose(text) for a text JSON.parse accepts or that holds no
\* bracket: null (None) without a bracket, else the parsed value.
parseJsonLoose(body) == IF body.kind = "text" THEN None ELSE Some(body)

\* Array.isArray(value) ? value.filter(row => !!row && typeof row === 'object') : []
normalizeCounselRows(value) ==
    IF value.kind # "array" THEN << >>
    ELSE SelectSeq(value.rows, LAMBDA row : row.truthy /\ row.isObject)

NewCounsel ==
    [pc |-> "init",          \* awaited call: init, image, ocr, submit, reinit; or done
     imageAttempt |-> 0,     \* the loop variable, 0 before the loop
     images |-> 0,           \* captcha images requested
     n |-> 0,                \* candidates of the current image
     submitted |-> 0,        \* codes of the current image submitted
     sessions |-> 0,         \* initializeCounselSession calls that succeeded
     outcome |-> "running",  \* running, returned, threw
     answer |-> None,        \* the array answer that ended the loop
     result |-> << >>,
     error |-> None]

CounselThrows(c, error) ==
    [c EXCEPT !.pc = "done", !.outcome = "threw", !.error = Some(error)]

\* The head of the for loop with the loop variable at i.
ImageLoop(c, i) ==
    IF i <= maxImages
    THEN [c EXCEPT !.imageAttempt = i, !.pc = "image"]
    ELSE CounselThrows([c EXCEPT !.imageAttempt = i], ErrUnableCounsel)

\* candidates.slice(0, maxCodesPerImage).length without the slice.
CodesToTryAll(n) == n

\* candidates.slice(0, maxCodesPerImage).length
CodesToTry(n) == IF n < maxCodesPerImage THEN n ELSE maxCodesPerImage

\* 'continue' of the inner loop: the next code, or the next image when the
\* codes to try are used up.
NextCode(c) ==
    IF c.submitted < CodesToTry(c.n) THEN [c EXCEPT !.pc = "submit"]
    ELSE ImageLoop(c, c.imageAttempt + 1)

FInit ==
    /\ PipelineIdle
    /\ DetectorIdle
    /\ SolverIdle
    /\ RetrievalIdle
    /\ OrderIdle
    /\ ParserIdle
    /\ RetryIdle
    /\ RankingIdle
    /\ counsel = Some(NewCounsel)

SetCounsel(c) == counsel' = Some(c)

\* initializeCounselSession answers: before the loop, or after an
\* invalid-session answer, where 'break' follows it.
CounselSession ==
    /\ counsel[1].pc \in {"init", "reinit"}
    /\ \E res \in {"ok", "status", "network"} :
          IF res = "network" THEN SetCounsel(CounselThrows(counsel[1], ErrNetwork))
          ELSE IF res = "status" THEN SetCounsel(CounselThrows(counsel[1], ErrInitCounsel))
          ELSE LET c == [counsel[1] EXCEPT !.sessions = @ + 1]
               IN SetCounsel(ImageLoop(c, c.imageAttempt + 1))
    /\ UNCHANGED <<html, parsedCourts, retrying, ocrRuns, candidates>>
    /\ UNCHANGED <<pvars, dvars, cvars, svars, ovars>>

\* captchaResponse arrives.
CounselImage ==
    /\ counsel[1].pc = "image"
    /\ \E res \in {"ok", "status", "network"} :
          LET c == [counsel[1] EXCEPT !.images = @ + 1]
          IN IF res = "network" THEN SetCounsel(CounselThrows(c, ErrNetwork))
             ELSE IF res = "status" THEN SetCounsel(ImageLoop(c, c.imageAttempt + 1))
             ELSE SetCounsel([c EXCEPT !.pc = "ocr"])
    /\ UNCHANGED <<html, parsedCourts, retrying, ocrRuns, candidates>>
    /\ UNCHANGED <<pvars, dvars, cvars, svars, ovars>>

\* getCounselCaptchaCandidates(image) answers, or sharp rejects the bytes.
CounselCandidates ==
    /\ counsel[1].pc = "ocr"
    /\ \/ SetCounsel(CounselThrows(counsel[1], ErrImage))
       \/ \E n \in CandidateCounts :
             LET c == [counsel[1] EXCEPT !.n = n, !.submitted = 0]
             IN IF n = 0 THEN SetCounsel(ImageLoop(c, c.imageAttempt + 1))
                ELSE SetCounsel([c EXCEPT !.pc = "submit"])
    /\ UNCHANGED <<html, parsedCourts, retrying, ocrRuns, candidates>>
    /\ UNCHANGED <<pvars, dvars, cvars, svars, ovars>>

\* The answer to the next code of the current image arrives.
CounselSubmit ==
    /\ counsel[1].pc = "submit"
    /\ LET c == [counsel[1] EXCEPT !.submitted = @ + 1]
       IN \/ SetCounsel(CounselThrows(c, ErrNetwork))
          \/ SetCounsel(NextCode(c))                    \* !response.ok
          \/ \E body \in CounselBodies :
                IF body.kind = "garbage" THEN SetCounsel(CounselThrows(c, ErrJson))
                ELSE LET parsed == parseJsonLoose(body)
                     IN IF parsed = None THEN SetCounsel(NextCode(c))
                        ELSE IF parsed[1].kind = "array"
                        THEN SetCounsel([c EXCEPT !.pc = "done", !.outcome = "returned",
                                                  !.answer = parsed,
                                                  !.result = normalizeCounselRows(parsed[1])])
                        ELSE IF parsed[1].invalidSession
                        THEN SetCounsel([c EXCEPT !.pc = "reinit"])
                        ELSE IF parsed[1].captchaError THEN SetCounsel(NextCode(c))
                        ELSE IF parsed[1].error
                        THEN SetCounsel(CounselThrows(c, ErrSourceCounsel))
                        ELSE SetCounsel(NextCode(c))
    /\ UNCHANGED <<html, parsedCourts, retrying, ocrRuns, candidates>>
    /\ UNCHANGED <<pvars, dvars, cvars, svars, ovars>>

FNext == CounselSession \/ CounselImage \/ CounselCandidates \/ CounselSubmit

\* Every awaited call of fetchCounselRows settles.
SpecCounsel == FInit /\ [][FNext]_vars /\ WF_vars(FNext)

(***************************************************************************)
(* Properties of the worker                                                *)
(***************************************************************************)
\* C1: at most one poll of the worker is in progress at any instant, and a
\* timer tick that fires while a poll is running is skipped entirely: it starts
\* no poll (no fetch, no snapshot read), writes nothing and queues nothing.
C1_SingleFlight ==
    /\ [](Cardinality(ActiveWorkers) <= 1)
    /\ [][ActiveWorkers # {} =>
            /\ Len(polls') = Len(polls)
            /\ lastTick' # lastTick =>
                  /\ lastTick' = "skipped"
                  /\ UNCHANGED <<clock, schedules, changes, notifications, logs,
                                 polls, isRunning, timerArmed>>]_vars

C1_Witness ==
    /\ lastTick = "skipped"
    /\ isRunning
    /\ \E p \in ActiveWorkers : polls[p].pc = "insertNotifications"

\* C2: a poll in which a step failed has ended inside the tick (its handler
\* returned), inserted no snapshot, and leaves the worker idle with the timer
\* armed, so that the next tick starts a poll.
C2_FailureContained ==
    /\ \A p \in DOMAIN polls :
          /\ polls[p].pc = "catch" => polls[p].snapshot = None
          /\ polls[p].outcome = "failed" =>
                /\ polls[p].pc = "done"
                /\ polls[p].snapshot = None
    /\ ActiveWorkers = {} => (~isRunning /\ timerArmed)
    /\ isRunning => ActiveWorkers # {}

C2_Witness ==
    \E p, q \in DOMAIN polls :
        /\ p < q
        /\ polls[p].outcome = "failed"
        /\ polls[p].inserted # << >>
        /\ polls[q].byTimer
        /\ polls[q].pc = "findLast"

\* C11: a poll whose read of the latest schedule found none persists no change
\* event and no notification, and when it completes it has persisted the
\* schedule it parsed (also when that schedule lists courts).
C11_FirstRunBaseline ==
    /\ [](\A p \in DOMAIN polls :
            polls[p].firstRun =>
               /\ polls[p].inserted = << >>
               /\ polls[p].notified = << >>
               /\ polls[p].pc \in {"saveSchedule", "catch", "done"}
               /\ polls[p].outcome = "ok" => polls[p].snapshot # None)
    /\ [][\A p \in DOMAIN polls :
            (polls[p].firstRun /\ polls[p].pc = "saveSchedule" /\ polls'[p].pc = "done")
               => /\ Len(schedules') = Len(schedules) + 1
                  /\ schedules'[Len(schedules')].courts = polls[p].parsed
                  /\ polls'[p].snapshot = Some(Len(schedules'))
                  /\ UNCHANGED <<changes, notifications>>]_vars

\* C12: if the schedule fetch of a poll never completes, the worker still
\* starts a later poll eventually.
C12_HungFetchDoesNotStarve ==
    \A n \in 1..(MaxPolls - 1) :
        (<>[](Len(polls) >= n /\ polls[n].pc = "fetch")) => <>(Len(polls) > n)

C11_Witness ==
    \E p \in DOMAIN polls :
        /\ polls[p].firstRun
        /\ polls[p].outcome = "ok"
        /\ polls[p].snapshot # None
        /\ schedules[polls[p].snapshot[1]].courts # << >>
        /\ changes = << >>
        /\ notifications = << >>

(***************************************************************************)
(* Properties of the monitor route                                         *)
(***************************************************************************)
\* The invocations whose dedup filter has just run: `found` is what
\* detectChanges returned, `pending` what the filter kept, `seen` how many
\* documents 'changes' held when the dedup query read it.
Filtered ==
    {q \in DOMAIN polls :
        /\ polls[q].kind = "monitor"
        /\ polls[q].found # << >>
        /\ polls[q].pc \in {"insertChanges", "saveSchedule"}}

ClassifiedDuplicate(q, k) == polls[q].found[k] \notin Range(polls[q].pending)

\* The case number of an event: the new value's, else the old value's, else none.
ClaimCaseNumber(e) ==
    IF e.newValue # None /\ e.newValue[1].caseDetails # None
    THEN e.newValue[1].caseDetails[1].caseNumber
    ELSE IF e.oldValue # None /\ e.oldValue[1].caseDetails # None
    THEN e.oldValue[1].caseDetails[1].caseNumber
    ELSE "none"

\* C3: two identical polls 10 seconds apart both report court "3" newly added
\* with the same case number: the second poll's event is classified as a
\* duplicate (and so yields no notification), whatever the time of the first.
C3_TenSecondsApartDeduped ==
    \A q \in Filtered : \A k \in DOMAIN polls[q].found :
        LET e == polls[q].found[k] IN
        (/\ e.courtNo = "3"
         /\ e.changeType = "added"
         /\ \E i \in 1..polls[q].seen :
               /\ changes[i].courtNo = "3"
               /\ changes[i].changeType = "added"
               /\ ClaimCaseNumber(changes[i]) = ClaimCaseNumber(e)
               /\ changes[i].newValue = e.newValue
               /\ changes[i].timestamp + 10000 = e.timestamp)
        => ClassifiedDuplicate(q, k)

C10_NotificationPerChange ==
    /\ \A p \in DOMAIN polls :
          polls[p].outcome = "ok" =>
            \A k \in DOMAIN polls[p].inserted :
                Cardinality({n \in Range(polls[p].notified) :
                                /\ notifications[n].changeRecordId = Some(polls[p].inserted[k])
                                /\ ~notifications[n].read}) = 1
    /\ \A n \in DOMAIN notifications :
          /\ notifications[n].changeRecordId # None
          /\ notifications[n].changeRecordId[1] \in DOMAIN changes

(***************************************************************************)
(* Properties of detectChanges                                             *)
(***************************************************************************)
\* Every reordering of a sequence.
Perms(seq) ==
    LET n == Len(seq)
        bij == {f \in [1..n -> 1..n] : \A i, j \in 1..n : f[i] = f[j] => i = j}
    IN  {[i \in 1..n |-> seq[f[i]]] : f \in bij}

EventsOf(courtNo) == {i \in DOMAIN detected : detected[i].courtNo = courtNo}

\* C5: detectChanges(S, S) returns the empty list for every list S of court
\* records compared with itself.
C5_SelfDiffEmpty ==
    (dphase = "done" /\ oldCourts = newCourts) => detected = << >>

\* C6: a court number present on both sides whose isInSession flag differs gets
\* exactly one event, a status_changed one, and no updated, added or removed
\* event in the same call.
C6_StatusDominates ==
    dphase = "done" =>
        \A c \in DOMAIN CourtMap(oldCourts) \cap DOMAIN CourtMap(newCourts) :
            CourtMap(oldCourts)[c].isInSession # CourtMap(newCourts)[c].isInSession
            => /\ Cardinality(EventsOf(c)) = 1
               /\ \A i \in EventsOf(c) : detected[i].changeType = "status_changed"

\* C7: detectChanges(empty, S) is exactly one added event per record of S, and
\* detectChanges(S, empty) is exactly one removed event per record of S.
C7_AddedRemovedPerRecord ==
    dphase = "done" =>
        /\ oldCourts = << >> =>
              /\ Len(detected) = Len(newCourts)
              /\ \A i \in DOMAIN detected :
                    /\ detected[i].changeType = "added"
                    /\ detected[i].courtNo = newCourts[i].courtNo
                    /\ detected[i].newValue = Some(newCourts[i])
        /\ newCourts = << >> =>
              /\ Len(detected) = Len(oldCourts)
              /\ \A i \in DOMAIN detected :
                    /\ detected[i].changeType = "removed"
                    /\ detected[i].courtNo = oldCourts[i].courtNo
                    /\ detected[i].oldValue = Some(oldCourts[i])

C7_Witness ==
    /\ dphase = "done"
    /\ newCourts = << >>
    /\ Len(oldCourts) = 2
    /\ ~oldCourts[1].isInSession
    /\ Len(detected) = 2

\* C8: the set of events returned does not depend on the order of the records
\* in previous nor on the order of the records in next.
C8_OrderIndependent ==
    dphase = "done" =>
        \A po \in Perms(oldCourts), pn \in Perms(newCourts) :
            Range(detectChanges(po, pn, DetectTime)) = Range(detected)

\* C9: an added event has no previous value and has a new value, a removed
\* event has a previous value and no new value, an updated or status_changed
\* event has both, and they are records of the event's court number.
C9_EventShape ==
    \A i \in DOMAIN detected :
        LET e == detected[i] IN
        /\ e.changeType \in {"added", "updated", "removed", "status_changed"}
        /\ e.changeType = "added" =>
              /\ e.oldValue = None
              /\ Len(e.newValue) = 1 /\ e.newValue[1].courtNo = e.courtNo
        /\ e.changeType = "removed" =>
              /\ e.newValue = None
              /\ Len(e.oldValue) = 1 /\ e.oldValue[1].courtNo = e.courtNo
        /\ e.changeType \in {"updated", "status_changed"} =>
              /\ Len(e.oldValue) = 1 /\ e.oldValue[1].courtNo = e.courtNo
              /\ Len(e.newValue) = 1 /\ e.newValue[1].courtNo = e.courtNo

C9_Witness ==
    /\ dphase = "done"
    /\ \E i, j, k \in DOMAIN detected :
          /\ detected[i].changeType = "status_changed"
          /\ detected[j].changeType = "updated"
          /\ detected[k].changeType = "removed"

(***************************************************************************)
(* Properties of the captcha solver                                        *)
(***************************************************************************)
\* C20: solveCaptcha never raises an error: for every image, also an empty or
\* undecodable one and one in which OCR finds no usable characters, the call
\* returns a value.
C20_SolverNeverThrows == sphase = "done" => ~solved[1].threw

\* C25: whenever solveCaptcha returns a value, the value is exactly 6 digits,
\* and so passes the test /^\d{6}$/ of downloadJudgmentWithCaptcha.
C25_ReturnsSixDigits ==
    (sphase = "done" /\ ~solved[1].threw) => IsSixDigits(solved[1].value)

(***************************************************************************)
(* Properties of captcha sessions and document retrieval                   *)
(***************************************************************************)
\* C14: a session with which a submission was accepted or rejected is no
\* longer in the session table, and a later getCaptchaImage or
\* downloadJudgmentWithCaptcha call with its id fails as expired.
C14_JudgedSessionDiscarded ==
    \A c \in DOMAIN calls :
        /\ calls[c].judged => calls[c].sessionId[1] \notin DOMAIN SESSIONS
        /\ (calls[c].lookup # None /\ calls[c].lookup[1].used) =>
              /\ ~calls[c].lookup[1].found
              /\ calls[c].raised = Some(ErrExpired)

\* The createdAt a session id was set with: makeId() and createdAt read the
\* clock in the same turn.
CreatedAt(id) == id[1]

\* C16: a getCaptchaImage or downloadJudgmentWithCaptcha call made more than
\* SESSION_TTL_MS after its session was created fails with the session-expired
\* error, has sent no upstream request and leaves the session out of the
\* table; a call made no later than that finds the session.
C16_SessionTtl ==
    \A c \in DOMAIN calls :
        calls[c].lookup # None =>
           LET look == calls[c].lookup[1] IN
           IF look.at - CreatedAt(look.id) > SESSION_TTL_MS
           THEN /\ ~look.found
                /\ calls[c].raised = Some(ErrExpired)
                /\ calls[c].request = None
                /\ look.id \notin DOMAIN SESSIONS
           ELSE /\ look.found
                /\ calls[c].raised # Some(ErrExpired)

C16_Witness ==
    \E c, d \in DOMAIN calls :
        /\ calls[c].lookup # None /\ calls[d].lookup # None
        /\ calls[c].lookup[1].at - CreatedAt(calls[c].lookup[1].id) = SESSION_TTL_MS
        /\ calls[c].lookup[1].found
        /\ calls[c].request # None
        /\ calls[d].lookup[1].at - CreatedAt(calls[d].lookup[1].id) > SESSION_TTL_MS
        /\ calls[d].raised = Some(ErrExpired)

\* A session that has not outlived SESSION_TTL_MS at time now.
StillValid(session, now) == now - session.createdAt <= SESSION_TTL_MS

\* C19: under every interleaving each call sends only the cookie the upstream
\* issued to it and the document id it asked for, taken from the session it
\* holds, and no step overwrites or removes a session that is still valid.
C19_SessionsIsolated ==
    /\ [](\A c \in DOMAIN calls :
            calls[c].request # None =>
               /\ calls[c].request[1].sessionId = calls[c].sessionId[1]
               /\ calls[c].request[1].cookie[1] = c
               /\ calls[c].request[1].judgmentId = calls[c].judgmentId)
    /\ [][\A id \in DOMAIN SESSIONS :
            StillValid(SESSIONS[id], clock') =>
               /\ id \in DOMAIN SESSIONS'
               /\ SESSIONS'[id] = SESSIONS[id]]_vars

C19_Witness ==
    \E c, d \in DOMAIN calls :
        /\ c # d
        /\ calls[c].request # None /\ calls[d].request # None
        /\ CreatedAt(calls[c].sessionId[1]) = CreatedAt(calls[d].sessionId[1])
        /\ calls[c].request[1].cookie # calls[d].request[1].cookie

\* The content type a document is expected to have.
IsBinaryType(contentType) ==
    Includes(contentType, "pdf") \/ Includes(contentType, "application/octet-stream")

\* The body is an HTML page: an <html tag or a doctype opens it.
IsHtmlBody(buf) ==
    \/ IncludesChars(toLowerCase(buf), HtmlTag)
    \/ IncludesChars(toLowerCase(buf), <<"<", "!", "d", "o", "c", "t", "y", "p", "e">>)

\* C15: a response is returned to the caller as a document only when its
\* content type is the expected binary type and its body is not HTML, whatever
\* its HTTP status.
C15_OnlyBinaryAccepted ==
    \A c \in DOMAIN calls :
        calls[c].document # None =>
           /\ IsBinaryType(calls[c].document[1].contentType)
           /\ ~IsHtmlBody(calls[c].document[1].buf)

\* C17 as stated: downloadJudgmentAuto raises a failure only from its last
\* attempt (attempt = maxRetries - 1), and the failure raised is that attempt's.
C17_RaisedOnlyAfterBudget ==
    \A c \in DOMAIN calls :
        calls[c].outcome = "raised" =>
           /\ calls[c].attempt = MaxRetries(calls[c].kind) - 1
           /\ calls[c].raised = calls[c].thrown

\* C17, amended: downloadJudgmentAuto raises a failure only from its last
\* attempt or, in the variant with maxRetries = 5, from an attempt whose error
\* is not a captcha error; every other failure is swallowed and followed by
\* a new attempt, which only such a failure is; the failure raised is that of
\* the latest attempt made.
C17_RaisedAfterBudgetOrOtherError ==
    /\ [](\A c \in DOMAIN calls :
            /\ calls[c].outcome = "raised" =>
                  /\ \/ calls[c].attempt = MaxRetries(calls[c].kind) - 1
                     \/ /\ calls[c].kind = "auto5"
                        /\ ~isCaptchaError(calls[c].raised[1])
                  /\ calls[c].raised = calls[c].thrown
            /\ calls[c].pc = "backoff" =>
                  /\ calls[c].outcome = "running"
                  /\ calls[c].attempt < MaxRetries(calls[c].kind) - 1
                  /\ calls[c].thrown # None
                  /\ calls[c].kind = "auto5" => isCaptchaError(calls[c].thrown[1])
            /\ calls[c].attempt < MaxRetries(calls[c].kind))
    /\ [][\A c \in DOMAIN calls :
            (calls[c].outcome = "running" /\ calls'[c].thrown # calls[c].thrown) =>
               IF \/ calls[c].attempt = MaxRetries(calls[c].kind) - 1
                  \/ /\ calls[c].kind = "auto5"
                     /\ ~isCaptchaError(calls'[c].thrown[1])
               THEN calls'[c].outcome = "raised"
               ELSE calls'[c].pc = "backoff"]_vars

C17_Witness ==
    \E c \in DOMAIN calls :
        /\ calls[c].kind = "auto5"
        /\ calls[c].outcome = "raised"
        /\ calls[c].attempt = AUTO_MAX_RETRIES - 1
        /\ calls[c].raised = Some(ErrInvalidCode)

\* C18: once the upstream has answered a submission of a retrieval with 429,
\* the retrieval ends with the rate-limit failure, which the download route
\* answers with status 429, and with nothing else.
C18_RateLimitSurfaced ==
    \A c \in DOMAIN calls :
        (calls[c].limited /\ calls[c].outcome # "running") =>
           /\ calls[c].outcome = "raised"
           /\ calls[c].raised = Some(ErrRateLimited)
           /\ RouteStatus(calls[c].raised[1]) = 429

(***************************************************************************)
(* Properties of order judgments                                           *)
(***************************************************************************)
\* C13: downloadOrderJudgment makes at most maxAttempts attempts, returns the
\* payload of the attempt that was accepted, and an attempt that follows a
\* rejected submission runs in a session of its own: none of the cookies it
\* sends was set before that attempt, and one view page has been opened per
\* attempt.
C13_FreshSessionPerAttempt ==
    order # None =>
       LET o == order[1] IN
       /\ o.attempt <= maxAttempts
       /\ o.outcome = "returned" =>
             /\ o.accepted = Some(o.attempt)
             /\ SubSeq(o.result[1].data, 1, 4) = <<"%", "P", "D", "F">>
       /\ (o.after = "rejected" /\ o.request # None /\ o.request[1].attempt = o.attempt) =>
             /\ \A pair \in o.request[1].cookie : pair[2][1] = o.attempt
             /\ o.opened = o.attempt

(***************************************************************************)
(* Properties of the snapshot store                                        *)
(***************************************************************************)
\* C21: a poll that succeeds appends exactly one snapshot (the schedule it
\* parsed) and nothing else adds one, no step changes or removes a stored
\* snapshot, and the snapshot a poll diffs against is one with the greatest
\* lastUpdated among the stored ones.
C21_SnapshotsAppendOnly ==
    /\ [](\A p \in DOMAIN polls :
            /\ polls[p].outcome = "ok" =>
                  /\ polls[p].snapshot # None
                  /\ polls[p].snapshot[1] \in DOMAIN schedules
            /\ \A q \in DOMAIN polls :
                  (p # q /\ polls[p].snapshot # None) => polls[p].snapshot # polls[q].snapshot)
    /\ [][/\ Len(schedules') >= Len(schedules)
          /\ SubSeq(schedules', 1, Len(schedules)) = schedules
          /\ Len(schedules') # Len(schedules) =>
                \E p \in DOMAIN polls :
                    /\ polls[p].outcome = "running"
                    /\ polls'[p].outcome = "ok"
                    /\ schedules' = Append(schedules, [lastUpdated |-> clock,
                                                       courts |-> polls[p].parsed])
          /\ \A p \in DOMAIN polls :
                (polls[p].outcome = "running" /\ polls'[p].outcome = "ok") =>
                    Len(schedules') = Len(schedules) + 1
          /\ \A p \in DOMAIN polls :
                (polls[p].pc = "findLast" /\ polls'[p].lastCourts # None) =>
                    \E i \in DOMAIN schedules :
                        /\ \A j \in DOMAIN schedules :
                              schedules[j].lastUpdated <= schedules[i].lastUpdated
                        /\ polls'[p].lastCourts = Some(schedules[i].courts)]_vars

C21_Witness ==
    \E p \in DOMAIN polls :
        /\ polls[p].pc = "insertChanges"
        /\ Len(schedules) >= 2
        /\ schedules[1].lastUpdated < schedules[Len(schedules)].lastUpdated
        /\ schedules[1].courts # schedules[Len(schedules)].courts
        /\ polls[p].lastCourts = Some(schedules[Len(schedules)].courts)

(***************************************************************************)
(* Properties of parseCourtSchedule                                        *)
(***************************************************************************)
\* C22: every record parseCourtSchedule returns with isInSession = false has
\* caseDetails, serialNo, list and progress all null.
C22_NotInSessionIsBare ==
    parsedCourts # None =>
        \A i \in DOMAIN parsedCourts[1] :
            LET court == parsedCourts[1][i] IN
            ~court.isInSession =>
                /\ court.caseDetails = None
                /\ court.serialNo = None
                /\ court.list = None
                /\ court.progress = None

C22_Witness ==
    /\ parsedCourts # None
    /\ \E i \in DOMAIN html : \E k \in DOMAIN parsedCourts[1] :
          /\ i > 1
          /\ Len(html[i]) = 5
          /\ html[i][2] = <<"1">>
          /\ html[i][3] # << >>
          /\ parsedCourts[1][k] = NotInSession("5")
    /\ \E k \in DOMAIN parsedCourts[1] :
          /\ parsedCourts[1][k].isInSession
          /\ parsedCourts[1][k].caseDetails # None

(***************************************************************************)
(* Properties of the schedule fetch                                        *)
(***************************************************************************)
\* C23: the fetch of a poll is tried at most 3 times; try k+1 follows the
\* failure of try k by a wait of 1000 * 2^(k-1) ms; the first try that
\* succeeds ends the retrying and gives the result; an error reaches the poll
\* only from the 3rd failed try, it is that try's error, and no wait follows it.
C23_ThreeTriesWithBackoff ==
    retrying # None =>
       LET f == retrying[1] IN
       /\ Len(f.tries) <= 3
       /\ \A k \in 1..(Len(f.tries) - 1) :
             /\ ~f.tries[k].ok
             /\ f.waits[k].delay = 1000 * (2 ^ (k - 1))
             /\ f.tries[k + 1].at >= f.tries[k].at + f.waits[k].delay
       /\ f.outcome = "returned" =>
             /\ f.tries[Len(f.tries)].ok
             /\ f.result = Some(f.tries[Len(f.tries)].value)
       /\ f.outcome = "raised" =>
             /\ Len(f.tries) = 3
             /\ f.raised = Some(f.tries[3].value)
             /\ Len(f.waits) = 2

(***************************************************************************)
(* Properties of captcha candidates                                        *)
(***************************************************************************)
\* The number of OCR runs that produced a candidate.
Agreement(candidate) ==
    Cardinality({i \in DOMAIN ocrRuns : runTesseractDigits(ocrRuns[i]) = candidate})

\* How far a candidate's length is from the 4 characters expected.
Distance(candidate) ==
    IF Len(candidate) >= 4 THEN Len(candidate) - 4 ELSE 4 - Len(candidate)

\* C24: in the list returned, a candidate produced by more runs never comes
\* after one produced by fewer runs, and among candidates produced by equally
\* many runs the one whose length is closer to the expected length comes first.
C24_RankedByAgreement ==
    candidates # None =>
        \A i, j \in DOMAIN candidates[1] :
            i < j =>
               /\ Agreement(candidates[1][i]) >= Agreement(candidates[1][j])
               /\ Agreement(candidates[1][i]) = Agreement(candidates[1][j]) =>
                     Distance(candidates[1][i]) <= Distance(candidates[1][j])

(***************************************************************************)
(* Properties of the change history                                        *)
(***************************************************************************)
\* C26: whatever the order and the interleaving of the monitor invocations,
\* no two documents of 'changes' have the same court number, change type,
\* case number and floor(timestamp / 60000).
C26_NoTwoEventsWithOneKey ==
    \A i, j \in DOMAIN changes :
        (/\ changes[i].courtNo = changes[j].courtNo
         /\ changes[i].changeType = changes[j].changeType
         /\ ClaimCaseNumber(changes[i]) = ClaimCaseNumber(changes[j])
         /\ changes[i].timestamp \div 60000 = changes[j].timestamp \div 60000)
        => i = j

\* An event of the change history that records the difference e.
Recorded(e) ==
    \E i \in DOMAIN changes :
        /\ changes[i].courtNo = e.courtNo
        /\ changes[i].changeType = e.changeType
        /\ ClaimCaseNumber(changes[i]) = ClaimCaseNumber(e)

\* C27: for every stored snapshot that has a predecessor, every difference
\* detectChanges finds between the predecessor and it is in the change
\* history (persisted, or a duplicate of a persisted event).
C27_EveryDifferenceDetected ==
    \A s \in 2..Len(schedules) :
        LET missed == detectChanges(schedules[s - 1].courts, schedules[s].courts, 0)
        IN \A k \in DOMAIN missed : Recorded(missed[k])

\* C28: once a poll has ended, with success or with a failure, every change
\* event it inserted has a notification it inserted for the same court and
\* the same change.
C28_NoChangeWithoutNotification ==
    \A p \in DOMAIN polls :
        polls[p].pc = "done" =>
            \A k \in DOMAIN polls[p].inserted :
                \E n \in Range(polls[p].notified) :
                    /\ notifications[n].courtNo = changes[polls[p].inserted[k]].courtNo
                    /\ notifications[n].type =
                          NotificationType(changes[polls[p].inserted[k]].changeType)
                    /\ notifications[n].timestamp = changes[polls[p].inserted[k]].timestamp

\* C29: one detectChanges call emits at most one event per court number, also
\* when a list holds a court number in more than one record.
C29_OneEventPerCourt ==
    dphase = "done" =>
        \A i, j \in DOMAIN detected :
            detected[i].courtNo = detected[j].courtNo => i = j

\* The budget of fetchCounselRows: at most maxImages image requests, at most
\* maxCodesPerImage codes submitted per image, and a spent budget ends the
\* call with the unable-to-solve error.
CounselBudget ==
    /\ counsel[1].images <= maxImages
    /\ counsel[1].submitted <= maxCodesPerImage
    /\ counsel[1].imageAttempt > maxImages =>
          /\ counsel[1].outcome = "threw"
          /\ counsel[1].error = Some(ErrUnableCounsel)
    /\ counsel[1].error = Some(ErrUnableCounsel) => counsel[1].imageAttempt > maxImages

\* A step of fetchCounselRows never lowers the image count, and the step
\* after an invalid-session answer opens a new session and goes to the next
\* image (or ends the call when the new session cannot be opened).
CounselStep ==
    /\ counsel'[1].images >= counsel[1].images
    /\ counsel'[1].imageAttempt >= counsel[1].imageAttempt
    /\ (counsel[1].pc = "reinit" /\ counsel'[1].outcome = "running") =>
          /\ counsel'[1].sessions = counsel[1].sessions + 1
          /\ counsel'[1].imageAttempt = counsel[1].imageAttempt + 1
          /\ counsel'[1].images = counsel[1].images

====
